---------------------------- MODULE Spec2Model ----------------------------
(***************************************************************************)
(* Phoenix Company Scanner (src/hitntry.py): the risk / phoenix-detection  *)
(* scoring engine calculate_risk and the bundle it scores.                 *)
(*                                                                         *)
(* A text held by the bundle is a string; Chars gives its characters as a  *)
(* sequence of ASCII codes, so that str.lower() and                        *)
(* difflib.SequenceMatcher.ratio() are computed, not assumed.  A dict is a *)
(* record; a key that is not in the dict is a field the record lacks.      *)
(***************************************************************************)
EXTENDS Integers, Sequences, FiniteSets, TLC

VARIABLES
    report,         \* the investigation bundle (the dict `report`)
    pc,             \* the point of control: "build", "scored", or a position
                    \* inside scan / deep_scan_company
    request_arg,    \* scan: request.args.get('company_number', '')
    company_number, \* scan: the characters of the trimmed request argument
    officers_left,  \* deep_scan_company: the officers still to be searched
    officer_entry,  \* deep_scan_company: <<the summary under construction>>
    linked,         \* deep_scan_company: the search hits still to be classified
    address_built,  \* the result of build_address_string
    calls,          \* the registry calls made so far, in order
    now,            \* datetime.now(), in half days
    response,       \* what scan returned: <<>> until it returns
    last_report,    \* app.config['LAST_REPORT']: <<>> or <<report>>
    export_pc,      \* download_report: its point of control
    export_number,  \* download_report: the company_number of the URL
    export_report,  \* download_report: <<>> or <<the local `report`>>
    export_response \* what download_report returned: <<>> until it returns

\* the variables of download_report
export_vars == <<export_pc, export_number, export_report, export_response>>

\* the variables of scan, deep_scan_company and download_report
scan_vars ==
    <<request_arg, company_number, officers_left, officer_entry, linked,
      address_built, calls, now, response, last_report, export_vars>>

vars == <<report, pc, scan_vars>>

(***************************************************************************)
(* Text helpers                                                            *)
(***************************************************************************)
\* the characters of the texts the model draws its inputs from
Chars ==
    "" :> <<>> @@
    "Kestrel Roofing Ltd." :> <<75, 101, 115, 116, 114, 101, 108, 32, 82, 111, 111, 102, 105, 110, 103, 32, 76, 116, 100, 46>> @@
    "KESTREL ROOFING LTD." :> <<75, 69, 83, 84, 82, 69, 76, 32, 82, 79, 79, 70, 73, 78, 71, 32, 76, 84, 68, 46>> @@
    "KESTREL ROOFING L123" :> <<75, 69, 83, 84, 82, 69, 76, 32, 82, 79, 79, 70, 73, 78, 71, 32, 76, 49, 50, 51>> @@
    "KESTREL ROOFIN2019UK" :> <<75, 69, 83, 84, 82, 69, 76, 32, 82, 79, 79, 70, 73, 78, 50, 48, 49, 57, 85, 75>> @@
    "KESTREL ROOFS 2019 X" :> <<75, 69, 83, 84, 82, 69, 76, 32, 82, 79, 79, 70, 83, 32, 50, 48, 49, 57, 32, 88>> @@
    "Kestrel Hoofing Ltd." :> <<75, 101, 115, 116, 114, 101, 108, 32, 72, 111, 111, 102, 105, 110, 103, 32, 76, 116, 100, 46>> @@
    "4 Mill Lane" :> <<52, 32, 77, 105, 108, 108, 32, 76, 97, 110, 101>> @@
    "York" :> <<89, 111, 114, 107>> @@
    "YO1" :> <<89, 79, 49>> @@
    "4 Mill Lane, York, YO1" :> <<52, 32, 77, 105, 108, 108, 32, 76, 97, 110, 101, 44, 32, 89, 111, 114, 107, 44, 32, 89, 79, 49>> @@
    "4 Mill Lane York 9XZ" :> <<52, 32, 77, 105, 108, 108, 32, 76, 97, 110, 101, 32, 89, 111, 114, 107, 32, 57, 88, 90>> @@
    "Unit 2" :> <<85, 110, 105, 116, 32, 50>> @@
    "York YO1" :> <<89, 111, 114, 107, 32, 89, 79, 49>> @@
    "01234567" :> <<48, 49, 50, 51, 52, 53, 54, 55>> @@
    " 01234567 " :> <<32, 48, 49, 50, 51, 52, 53, 54, 55, 32>> @@
    "  " :> <<32, 32>> @@
    "09999999" :> <<48, 57, 57, 57, 57, 57, 57, 57>> @@
    "REED, Alma" :> <<82, 69, 69, 68, 44, 32, 65, 108, 109, 97>> @@
    "(unknown)" :> <<40, 117, 110, 107, 110, 111, 119, 110, 41>> @@
    "2024-11-01" :> <<50, 48, 50, 52, 45, 49, 49, 45, 48, 49>> @@
    "2020-01-15" :> <<50, 48, 50, 48, 45, 48, 49, 45, 49, 53>> @@
    "2024-02-30" :> <<50, 48, 50, 52, 45, 48, 50, 45, 51, 48>> @@
    "00000001" :> <<48, 48, 48, 48, 48, 48, 48, 49>> @@
    "00000002" :> <<48, 48, 48, 48, 48, 48, 48, 50>> @@
    "00000005" :> <<48, 48, 48, 48, 48, 48, 48, 53>>

\* d.get(key, default)
Get(d, key, default) == IF key \in DOMAIN d THEN d[key] ELSE default

\* str.lower() on one ASCII character code
LowerChar(c) == IF c >= 65 /\ c <= 90 THEN c + 32 ELSE c

\* str.lower()
Lower(s) == [i \in 1..Len(s) |-> LowerChar(s[i])]

Min(a, b) == IF a <= b THEN a ELSE b

(***************************************************************************)
(* difflib.SequenceMatcher(None, a, b).ratio(), as used at lines 246 and   *)
(* 340: Ratcliff/Obershelp matching.  No junk; the autojunk heuristic only *)
(* applies to sequences of 200 or more elements.                           *)
(***************************************************************************)
\* length of the common run a[i..], b[j..] inside a[..ahi], b[..bhi]
RunLen(a, b, i, j, ahi, bhi) ==
    LET n == Min(ahi - i, bhi - j) + 1
    IN  CHOOSE k \in 0..n :
            /\ \A t \in 0..(k - 1) : a[i + t] = b[j + t]
            /\ (k = n \/ a[i + k] # b[j + k])

SetMax(S) == CHOOSE x \in S : \A y \in S : y <= x
SetMin(S) == CHOOSE x \in S : \A y \in S : x <= y

\* SequenceMatcher.find_longest_match: the longest matching block <<i, j, k>>;
\* among the longest, the one starting earliest in a, then earliest in b;
\* <<alo, blo, 0>> when nothing matches.
find_longest_match(a, b, r) ==
    LET P == (r.alo..r.ahi) \X (r.blo..r.bhi)
        hit == {p \in P : a[p[1]] = b[p[2]]}
    IN  IF hit = {} THEN <<r.alo, r.blo, 0>>
        ELSE LET len == {<<p, RunLen(a, b, p[1], p[2], r.ahi, r.bhi)>> : p \in hit}
                 k == SetMax({e[2] : e \in len})
                 best == {e[1] : e \in {f \in len : f[2] = k}}
                 i == SetMin({p[1] : p \in best})
                 j == SetMin({p[2] : p \in {q \in best : q[1] = i}})
             IN  <<i, j, k>>

\* sum of the sizes of SequenceMatcher.get_matching_blocks(): the longest
\* block of the range <<alo, ahi, blo, bhi>>, then the same to its left and
\* to its right.
matches(a, b) ==
    LET m[r \in (1..(Len(a) + 1)) \X (0..Len(a)) \X (1..(Len(b) + 1)) \X (0..Len(b))] ==
            IF r[1] > r[2] \/ r[3] > r[4] THEN 0
            ELSE LET blk == find_longest_match(a, b,
                                [alo |-> r[1], ahi |-> r[2], blo |-> r[3], bhi |-> r[4]])
                 IN  IF blk[3] = 0 THEN 0
                     ELSE blk[3]
                          + m[<<r[1], blk[1] - 1, r[3], blk[2] - 1>>]
                          + m[<<blk[1] + blk[3], r[2], blk[2] + blk[3], r[4]>>]
    IN  m[<<1, Len(a), 1, Len(b)>>]

\* ratio() * 100 as the exact fraction <<numerator, denominator>>:
\* 2.0 * matches / (len(a) + len(b)), and 1.0 when both are empty.
ratio100(a, b) ==
    LET T == Len(a) + Len(b)
    IN  IF T = 0 THEN <<100, 1>> ELSE <<200 * matches(a, b), T>>

\* a comparison that excludes the threshold itself
MoreThan(sim, p) == sim[1] > p * sim[2]

\* similarity >= p, similarity > p  (p an integer percentage)
AtLeast(sim, p) == sim[1] >= p * sim[2]
Above(sim, p) == sim[1] > p * sim[2]

\* f"{similarity:.0f}": round to nearest, ties to even
Fmt0(sim) ==
    LET q == sim[1] \div sim[2]
        rem == sim[1] % sim[2]
    IN  IF 2 * rem > sim[2] \/ (2 * rem = sim[2] /\ q % 2 = 1) THEN q + 1 ELSE q

RECURSIVE SumSeq(_, _)
\* sum(seq[i:]), counting from 1
SumSeq(seq, i) == IF i > Len(seq) THEN 0 ELSE seq[i] + SumSeq(seq, i + 1)

(***************************************************************************)
(* build_address_string                                                    *)
(***************************************************************************)
AddressFields == <<"address_line_1", "address_line_2", "locality", "postal_code">>

RECURSIVE JoinWithComma(_)
\* ', '.join(parts)
JoinWithComma(parts) ==
    IF Len(parts) = 0 THEN <<>>
    ELSE IF Len(parts) = 1 THEN parts[1]
    ELSE parts[1] \o <<44, 32>> \o JoinWithComma(Tail(parts))

RECURSIVE JoinWithSpace(_)
\* ' '.join(parts), parts a sequence of character sequences
JoinWithSpace(parts) ==
    IF Len(parts) = 0 THEN <<>>
    ELSE IF Len(parts) = 1 THEN parts[1]
    ELSE parts[1] \o <<32>> \o JoinWithSpace(Tail(parts))

\* the characters of the registered office address: the fields that are
\* present and not empty, in the fixed order, joined by one space
build_address_string(company) ==
    IF "registered_office_address" \notin DOMAIN company THEN <<>>
    ELSE LET addr == company.registered_office_address
             parts == SelectSeq(AddressFields,
                                LAMBDA f : f \in DOMAIN addr /\ addr[f] # "")
         IN  JoinWithSpace([i \in 1..Len(parts) |-> Chars[addr[parts[i]]]])

(***************************************************************************)
(* The inputs: the texts, records and bundles the model draws from         *)
(***************************************************************************)
\* the records of a bundle: officers + similar companies + charges +
\* insolvency record
MaxItems == 5      \* for the plain profile (active, with an address)
MaxItemsOther == 3 \* for every other profile

TargetNumber == "01234567"
TargetName == "Kestrel Roofing Ltd."

TargetAddress ==
    [address_line_1 |-> "4 Mill Lane", address_line_2 |-> "",
     locality |-> "York", postal_code |-> "YO1"]

CompanyStatuses ==
    {"active", "dissolved", "liquidation", "insolvency-proceedings",
     "receivership", "administration", "voluntary-arrangement"}

Company(status) ==
    [company_number |-> TargetNumber, company_name |-> TargetName,
     company_status |-> status]

CompanyAt(status, address) ==
    [company_number |-> TargetNumber, company_name |-> TargetName,
     company_status |-> status, registered_office_address |-> address]

PlainCompany == CompanyAt("active", TargetAddress)

CompanyPool ==
    {CompanyAt(s, TargetAddress) : s \in CompanyStatuses} \cup {Company("active")}

Similar(number, title, status) ==
    [company_number |-> number, title |-> title, company_status |-> status]

SimilarAt(number, title, status, snippet) ==
    [company_number |-> number, title |-> title, company_status |-> status,
     address_snippet |-> snippet]

\* the search results a similar company is drawn from, under the given
\* company number.  Name similarity to the target: 100, 85, 70, 65 and 95
\* per cent; address similarity to the target: 95.2 per cent, none, 85,
\* 95.2, 95.2
SimilarPool(number) ==
    {SimilarAt(number, "KESTREL ROOFING LTD.", "dissolved", "4 Mill Lane, York, YO1"),
     Similar(number, "KESTREL ROOFING L123", "dissolved"),
     SimilarAt(number, "KESTREL ROOFIN2019UK", "liquidation", "4 Mill Lane York 9XZ"),
     SimilarAt(number, "KESTREL ROOFS 2019 X", "insolvency-proceedings", "4 Mill Lane, York, YO1"),
     SimilarAt(number, "Kestrel Hoofing Ltd.", "administration", "4 Mill Lane, York, YO1")}

\* the company numbers of the search results, none of them the target's
SimilarNumbers ==
    <<"00000001", "00000002", "00000003", "00000004", "00000005", "00000006",
      "00000007", "00000008">>

Officer(name, d, l, r) ==
    [name |-> name, dissolved_links |-> d, liquidation_links |-> l,
     recent_formations |-> r]

OfficerPool ==
    {Officer("A", 0, 0, 1), Officer("B", 1, 0, 1), Officer("C", 2, 1, 0),
     Officer("D", 3, 2, 1)}

ChargePool == {[status |-> "outstanding"], [status |-> "fully-satisfied"]}

InsolvencyRecord == {"cases", "status"}     \* the keys of a non-empty dict

\* deep_scan_company's initial report, with the profile in place
NewReport(company) ==
    [company |-> company, officers |-> <<>>, filing_history |-> <<>>,
     psc |-> <<>>, charges |-> <<>>, insolvency |-> {},
     similar_companies |-> <<>>, flags |-> <<>>,
     risk_score |-> 0, phoenix_indicators |-> <<>>]

Items(r) ==
    Len(r.officers) + Len(r.similar_companies) + Len(r.charges)
    + (IF r.insolvency = {} THEN 0 ELSE 1)

HasRoom(r) ==
    /\ Items(r) < (IF r.company = PlainCompany THEN MaxItems ELSE MaxItemsOther)
    /\ Len(r.similar_companies) < Len(SimilarNumbers)

\* SequenceMatcher(None, a, b).ratio() * 100 for lower-cased a and b.  The
\* values for the texts of the pools are computed once; any other pair is
\* computed on the spot.
PoolAddresses == {build_address_string(c) : c \in CompanyPool}
RatioPairs ==
    {<<Lower(Chars[c.company_name]), Lower(Chars[s.title])>> :
        c \in CompanyPool, s \in SimilarPool("")}
    \cup {<<Lower(a), Lower(Chars[Get(s, "address_snippet", "")])>> :
        a \in PoolAddresses, s \in SimilarPool("")}
RatioOfPair == [p \in RatioPairs |-> ratio100(p[1], p[2])]
similarity100(a, b) ==
    IF <<a, b>> \in RatioPairs THEN RatioOfPair[<<a, b>>] ELSE ratio100(a, b)

(***************************************************************************)
(* calculate_risk: the risk score and its indicators                       *)
(***************************************************************************)
suspicious_statuses ==
    {"dissolved", "liquidation", "insolvency-proceedings", "receivership",
     "administration"}

NameStatuses == {"dissolved", "liquidation", "insolvency-proceedings"}

\* an f-string: its fixed text and the values it interpolates (a name or
\* status, a company number, up to two numbers)
Text(text, who, number, n, m) ==
    [text |-> text, who |-> who, number |-> number, n |-> n, m |-> m]

Indicator(type, severity, description) ==
    [type |-> type, severity |-> severity, description |-> description]

\* lines 223-224, 239, 282-283, 334, 390-392: the locals of calculate_risk
Locals ==
    [risk_score |-> 0, indicators |-> <<>>, name_recycling_dissolved |-> <<>>,
     phoenix_directors |-> <<>>, serial_directors |-> <<>>, officer_risk |-> 0,
     address_matches |-> <<>>,
     is_phoenix |-> FALSE, phoenix_confidence |-> 0, phoenix_reasons |-> <<>>]

\* risk_score += delta; indicators.append(indicator)
AddRisk(acc, delta, indicator) ==
    [acc EXCEPT !.risk_score = @ + delta, !.indicators = Append(@, indicator)]

\* officer_risk += delta; indicators.append(indicator)
AddOfficerRisk(acc, delta, indicator) ==
    [acc EXCEPT !.officer_risk = @ + delta, !.indicators = Append(@, indicator)]

\* a status rule that knows the dissolved status only
StatusRuleDissolvedOnly(acc, company_status) ==
    IF company_status = "dissolved"
    THEN AddRisk(acc, 30, Indicator("company_status", "high",
                                    Text("Company status is", company_status, "", 0, 0)))
    ELSE acc

\* lines 231-237: the company status rule
StatusRule(acc, company_status) ==
    IF company_status \in suspicious_statuses
    THEN AddRisk(acc, 30, Indicator("company_status", "high",
                                    Text("Company status is", company_status, "", 0, 0)))
    ELSE acc

\* a name rule whose high matches are not counted toward name recycling
NameRuleHighNotCounted(acc, similar, similar_status, similar_number, similarity) ==
    IF similar_status \in NameStatuses /\ AtLeast(similarity, 70)
    THEN IF AtLeast(similarity, 85)
         THEN AddRisk(acc, 25,
                      Indicator("high_name_similarity", "high",
                                Text("Very similar name to dissolved company",
                                     similar.title, similar_number, Fmt0(similarity), 0)))
         ELSE AddRisk([acc EXCEPT !.name_recycling_dissolved = Append(@, similar)], 15,
                      Indicator("name_similarity", "medium",
                                Text("Similar name to dissolved company",
                                     similar.title, similar_number, Fmt0(similarity), 0)))
    ELSE acc

\* lines 248-265: the name similarity rule for one similar company
NameRule(acc, similar, similar_status, similar_number, similarity) ==
    IF similar_status \in NameStatuses /\ AtLeast(similarity, 70)
    THEN IF AtLeast(similarity, 85)
         THEN AddRisk([acc EXCEPT !.name_recycling_dissolved = Append(@, similar)], 25,
                      Indicator("high_name_similarity", "high",
                                Text("Very similar name to dissolved company",
                                     similar.title, similar_number, Fmt0(similarity), 0)))
         ELSE AddRisk([acc EXCEPT !.name_recycling_dissolved = Append(@, similar)], 15,
                      Indicator("name_similarity", "medium",
                                Text("Similar name to dissolved company",
                                     similar.title, similar_number, Fmt0(similarity), 0)))
    ELSE acc

\* lines 242-265: one pass of the loop over similar_companies
SimilarStep(acc, company_name, similar) ==
    NameRule(acc, similar,
             Get(similar, "company_status", ""),
             Get(similar, "company_number", ""),
             similarity100(company_name, Lower(Chars[Get(similar, "title", "")])))

RECURSIVE SimilarLoop(_, _, _, _)
\* lines 241-265: for similar in report['similar_companies'], from index i
SimilarLoop(acc, company_name, similar_companies, i) ==
    IF i > Len(similar_companies) THEN acc
    ELSE SimilarLoop(SimilarStep(acc, company_name, similar_companies[i]),
                     company_name, similar_companies, i + 1)

\* lines 267-280: the name recycling rule
NameRecyclingRule(acc) ==
    IF Len(acc.name_recycling_dissolved) >= 3
    THEN AddRisk(acc, 30, Indicator("name_recycling", "critical",
             Text("dissolved companies with similar names found - strong name recycling pattern",
                  "", "", Len(acc.name_recycling_dissolved), 0)))
    ELSE IF Len(acc.name_recycling_dissolved) >= 2
    THEN AddRisk(acc, 20, Indicator("name_recycling", "high",
             Text("dissolved companies with similar names found - possible name recycling",
                  "", "", Len(acc.name_recycling_dissolved), 0)))
    ELSE acc

\* a rule that scores three dissolutions below two
DissolvedRuleLowSerial(acc, officer) ==
    IF officer.dissolved_links >= 3
    THEN AddOfficerRisk([acc EXCEPT !.serial_directors = Append(@, officer)], 10,
             Indicator("serial_dissolutions", "critical",
                 Text("has dissolved companies", officer.name, "", officer.dissolved_links, 0)))
    ELSE IF officer.dissolved_links >= 2
    THEN AddOfficerRisk(acc, 20,
             Indicator("multiple_dissolutions", "high",
                 Text("has dissolved companies", officer.name, "", officer.dissolved_links, 0)))
    ELSE acc

\* lines 289-304: the dissolved-links branch of one officer
DissolvedRule(acc, officer) ==
    IF officer.dissolved_links >= 3
    THEN AddOfficerRisk([acc EXCEPT !.serial_directors = Append(@, officer)], 30,
             Indicator("serial_dissolutions", "critical",
                 Text("has dissolved companies", officer.name, "", officer.dissolved_links, 0)))
    ELSE IF officer.dissolved_links >= 2
    THEN AddOfficerRisk(acc, 20,
             Indicator("multiple_dissolutions", "high",
                 Text("has dissolved companies", officer.name, "", officer.dissolved_links, 0)))
    ELSE acc

\* lines 306-320: the liquidation-links branch of one officer
LiquidationRule(acc, officer) ==
    IF officer.liquidation_links >= 2
    THEN AddOfficerRisk(acc, 40,
             Indicator("liquidation_pattern", "critical",
                 Text("linked to companies in liquidation/insolvency",
                      officer.name, "", officer.liquidation_links, 0)))
    ELSE IF officer.liquidation_links >= 1
    THEN AddOfficerRisk(acc, 20,
             Indicator("liquidation_history", "high",
                 Text("linked to company in liquidation/insolvency",
                      officer.name, "", officer.liquidation_links, 0)))
    ELSE acc

\* lines 322-330: the phoenix director branch of one officer
PhoenixDirectorRule(acc, officer) ==
    IF officer.dissolved_links >= 1 /\ officer.recent_formations >= 1
    THEN AddOfficerRisk([acc EXCEPT !.phoenix_directors = Append(@, officer)], 25,
             Indicator("phoenix_director_pattern", "high",
                 Text("dissolved companies + recent formations (potential phoenix activity)",
                      officer.name, "", officer.dissolved_links, officer.recent_formations)))
    ELSE acc

\* line 332: risk_score += officer_risk
AddOfficerTotal(acc) == [acc EXCEPT !.risk_score = @ + acc.officer_risk]

\* lines 285-332: one pass of the loop over officers
OfficerStep(acc, officer) ==
    AddOfficerTotal(
        PhoenixDirectorRule(
            LiquidationRule(
                DissolvedRule([acc EXCEPT !.officer_risk = 0], officer),
                officer),
            officer))

\* a loop over the officers that ends at the first officer without a
\* dissolved company
RECURSIVE OfficerLoopUntilClean(_, _, _)
OfficerLoopUntilClean(acc, officers, i) ==
    IF i > Len(officers) \/ officers[i].dissolved_links = 0 THEN acc
    ELSE OfficerLoopUntilClean(OfficerStep(acc, officers[i]), officers, i + 1)

RECURSIVE OfficerLoop(_, _, _)
\* lines 285-332: for officer in report['officers'], from index i
OfficerLoop(acc, officers, i) ==
    IF i > Len(officers) THEN acc
    ELSE OfficerLoop(OfficerStep(acc, officers[i]), officers, i + 1)

\* lines 338-343: the similar companies that carry an address snippet more
\* than 85 per cent similar to the target address
AddressMatches(target_address, similar_companies) ==
    SelectSeq(similar_companies,
              LAMBDA similar :
                  /\ "address_snippet" \in DOMAIN similar
                  /\ Above(similarity100(Lower(target_address),
                                         Lower(Chars[similar.address_snippet])), 85))

\* lines 345-358: the address recycling thresholds
AddressThresholds(acc) ==
    IF Len(acc.address_matches) >= 5
    THEN AddRisk(acc, 35, Indicator("address_recycling", "critical",
             Text("companies with same/similar addresses - strong address recycling pattern",
                  "", "", Len(acc.address_matches), 0)))
    ELSE IF Len(acc.address_matches) >= 3
    THEN AddRisk(acc, 25, Indicator("address_recycling", "high",
             Text("companies with same/similar addresses - possible address recycling",
                  "", "", Len(acc.address_matches), 0)))
    ELSE acc

\* lines 334-358: the address recycling rule
AddressRule(acc, target_address, similar_companies) ==
    IF target_address # <<>>
    THEN AddressThresholds(
             [acc EXCEPT !.address_matches = AddressMatches(target_address, similar_companies)])
    ELSE acc

\* line 361: the number of charges whose status is outstanding
Outstanding(charges) ==
    Len(SelectSeq(charges, LAMBDA charge : Get(charge, "status", "") = "outstanding"))

\* a charges rule that adds 10 for every outstanding charge
ChargesRulePerCharge(acc, charges) ==
    IF charges # <<>> /\ Outstanding(charges) > 0
    THEN AddRisk(acc, 10 * Outstanding(charges),
             Indicator("outstanding_charges", "medium",
                 Text("outstanding charges/mortgages on company", "", "",
                      Outstanding(charges), 0)))
    ELSE acc

\* lines 360-369: the outstanding charges rule
ChargesRule(acc, charges) ==
    IF charges # <<>> /\ Outstanding(charges) > 0
    THEN AddRisk(acc, 10, Indicator("outstanding_charges", "medium",
             Text("outstanding charges/mortgages on company", "", "", Outstanding(charges), 0)))
    ELSE acc

\* lines 371-377: the insolvency rule
InsolvencyRule(acc, insolvency) ==
    IF insolvency # {}
    THEN AddRisk(acc, 40, Indicator("insolvency_history", "critical",
             Text("Company has insolvency proceedings on record", "", "", 0, 0)))
    ELSE acc

\* lines 223-377: the rules in the order of evaluation; risk_score is not
\* clamped yet
RiskRules(r) ==
    InsolvencyRule(
        ChargesRule(
            AddressRule(
                OfficerLoop(
                    NameRecyclingRule(
                        SimilarLoop(
                            StatusRule(Locals, Get(r.company, "company_status", "")),
                            Lower(Chars[Get(r.company, "company_name", "")]),
                            r.similar_companies, 1)),
                    r.officers, 1),
                build_address_string(r.company), r.similar_companies),
            r.charges),
        r.insolvency)

\* a score left as the rules summed it
UnclampedRiskScore(risk_score) == risk_score

\* line 379
ClampScore(risk_score) == Min(risk_score, 100)

\* risk levels with exclusive thresholds
RiskLevelExclusive(risk_score) ==
    IF risk_score > 70 THEN "CRITICAL"
    ELSE IF risk_score > 50 THEN "HIGH"
    ELSE IF risk_score > 30 THEN "MEDIUM"
    ELSE "LOW"

\* lines 381-388
RiskLevel(risk_score) ==
    IF risk_score >= 70 THEN "CRITICAL"
    ELSE IF risk_score >= 50 THEN "HIGH"
    ELSE IF risk_score >= 30 THEN "MEDIUM"
    ELSE "LOW"

(***************************************************************************)
(* calculate_risk: the phoenix verdict                                     *)
(***************************************************************************)
\* a reason f-string: its fixed text and the count it interpolates
Reason(text, n) == [text |-> text, n |-> n]

NoPatternReason ==
    Reason("No clear phoenix patterns detected based on name, director, or address analysis", 0)

\* phoenix_confidence += delta; phoenix_reasons.append(reason)
AddConfidence(acc, delta, reason) ==
    [acc EXCEPT !.phoenix_confidence = @ + delta,
                !.phoenix_reasons = Append(@, reason)]

\* a verdict that is reached at a confidence of 40
CheckThresholdAt40(acc) ==
    IF acc.phoenix_confidence >= 40 THEN [acc EXCEPT !.is_phoenix = TRUE] ELSE acc

\* if phoenix_confidence >= 60: is_phoenix = True
CheckThreshold(acc) ==
    IF acc.phoenix_confidence >= 60 THEN [acc EXCEPT !.is_phoenix = TRUE] ELSE acc

\* lines 394-401
DirectorsTrigger(acc) ==
    IF Len(acc.phoenix_directors) >= 2
    THEN CheckThreshold(AddConfidence(acc, 40,
             Reason("directors show phoenix patterns (dissolved companies + recent formations)",
                    Len(acc.phoenix_directors))))
    ELSE IF Len(acc.phoenix_directors) >= 1
    THEN AddConfidence(acc, 25,
             Reason("director shows phoenix pattern (dissolved companies + recent formations)",
                    Len(acc.phoenix_directors)))
    ELSE acc

\* line 403
HighLiquidationDirectors(officers) ==
    SelectSeq(officers, LAMBDA d : d.liquidation_links >= 2)

\* lines 403-408
LiquidationTrigger(acc, officers) ==
    IF HighLiquidationDirectors(officers) # <<>>
    THEN CheckThreshold(AddConfidence(acc, 35,
             Reason("director(s) linked to multiple liquidations/insolvencies",
                    Len(HighLiquidationDirectors(officers)))))
    ELSE acc

\* lines 410-417
NameRecyclingTrigger(acc) ==
    IF Len(acc.name_recycling_dissolved) >= 3
    THEN CheckThreshold(AddConfidence(acc, 30,
             Reason("Name recycling detected: similar dissolved companies",
                    Len(acc.name_recycling_dissolved))))
    ELSE IF Len(acc.name_recycling_dissolved) >= 2
    THEN AddConfidence(acc, 20,
             Reason("Possible name recycling: similar dissolved companies",
                    Len(acc.name_recycling_dissolved)))
    ELSE acc

\* lines 419-425
InsolvencyTrigger(acc) ==
    IF /\ \E i \in 1..Len(acc.indicators) : acc.indicators[i].type = "insolvency_history"
       /\ Len(acc.phoenix_directors) > 0
    THEN CheckThreshold(AddConfidence(acc, 30,
             Reason("Insolvency history combined with directors forming new companies", 0)))
    ELSE acc

\* lines 427-431
AddressNameTrigger(acc) ==
    IF Len(acc.address_matches) >= 3 /\ Len(acc.name_recycling_dissolved) >= 2
    THEN CheckThreshold(AddConfidence(acc, 25,
             Reason("Multiple companies with same address and similar names", 0)))
    ELSE acc

\* a trigger that fires on a serial director alone
SerialTrigger(acc) ==
    IF Len(acc.serial_directors) >= 1
    THEN CheckThreshold(AddConfidence(acc, 20,
             Reason("serial director(s) with name recycling pattern",
                    Len(acc.serial_directors))))
    ELSE acc

\* lines 433-437
SerialNameTrigger(acc) ==
    IF Len(acc.serial_directors) >= 1 /\ Len(acc.name_recycling_dissolved) >= 2
    THEN CheckThreshold(AddConfidence(acc, 20,
             Reason("serial director(s) with name recycling pattern",
                    Len(acc.serial_directors))))
    ELSE acc

\* a confidence left as the triggers summed it
UnclampedPhoenixConfidence(phoenix_confidence) == phoenix_confidence

\* line 439
ClampConfidence(phoenix_confidence) == Min(phoenix_confidence, 100)

\* reasons left empty when no trigger fired
ReasonsAsCollected(phoenix_reasons) == phoenix_reasons

\* lines 441-442
DefaultReasons(phoenix_reasons) ==
    IF phoenix_reasons = <<>> THEN <<NoPatternReason>> ELSE phoenix_reasons

\* lines 390-437: the triggers in the order of evaluation
Verdict(acc, officers) ==
    SerialNameTrigger(
        AddressNameTrigger(
            InsolvencyTrigger(
                NameRecyclingTrigger(
                    LiquidationTrigger(DirectorsTrigger(acc), officers)))))

\* lines 379-388 and 439-449: the six keys calculate_risk sets on the report
Assessment(acc) ==
    [is_phoenix |-> IF acc.is_phoenix THEN "YES" ELSE "NO",
     phoenix_confidence |-> ClampConfidence(acc.phoenix_confidence),
     phoenix_reasons |-> DefaultReasons(acc.phoenix_reasons),
     risk_score |-> ClampScore(acc.risk_score),
     risk_level |-> RiskLevel(ClampScore(acc.risk_score)),
     phoenix_indicators |-> acc.indicators]

AssessmentKeys ==
    {"is_phoenix", "phoenix_confidence", "phoenix_reasons", "risk_score",
     "risk_level", "phoenix_indicators"}

\* a write that extends the indicator list already on the report
ExtendKeys(r, a) ==
    [k \in DOMAIN r \cup AssessmentKeys |->
        IF k = "phoenix_indicators" /\ k \in DOMAIN r THEN r[k] \o a[k]
        ELSE IF k \in AssessmentKeys THEN a[k] ELSE r[k]]

\* a write of the six keys that also empties the charges
SetKeysClearingCharges(r, a) ==
    [k \in DOMAIN r \cup AssessmentKeys |->
        IF k \in AssessmentKeys THEN a[k] ELSE IF k = "charges" THEN <<>> ELSE r[k]]

\* report[key] = value for the six keys, the other keys as they were
SetKeys(r, a) ==
    [k \in DOMAIN r \cup AssessmentKeys |-> IF k \in AssessmentKeys THEN a[k] ELSE r[k]]

\* calculate_risk(report)
calculate_risk(r) == SetKeys(r, Assessment(Verdict(RiskRules(r), r.officers)))

(***************************************************************************)
(* calculate_risk: the lookups that raise KeyError                         *)
(***************************************************************************)
\* lines 228, 241, 285, 360, 371: report['company'], ['similar_companies'],
\* ['officers'], ['charges'], ['insolvency']
SubscriptedKeys == {"company", "similar_companies", "officers", "charges", "insolvency"}

\* lines 257, 264: similar['title'] in the description of a name indicator
SimilarRaises(company_name, similar) ==
    /\ "title" \notin DOMAIN similar
    /\ Get(similar, "company_status", "") \in NameStatuses
    /\ AtLeast(similarity100(company_name, Lower(Chars[Get(similar, "title", "")])), 70)

\* lines 289-329: officer['dissolved_links'], ['liquidation_links'],
\* ['recent_formations'] in the tests and officer['name'] in the
\* description of an officer indicator
OfficerRaises(officer) ==
    \/ "dissolved_links" \notin DOMAIN officer
    \/ "liquidation_links" \notin DOMAIN officer
    \/ officer.dissolved_links >= 1 /\ "recent_formations" \notin DOMAIN officer
    \/ /\ "name" \notin DOMAIN officer
       /\ \/ officer.dissolved_links >= 2
          \/ officer.liquidation_links >= 1
          \/ officer.dissolved_links >= 1 /\ officer.recent_formations >= 1

\* calculate_risk(r) raises KeyError; it does so before it writes to r
Raises(r) ==
    \/ SubscriptedKeys \ DOMAIN r # {}
    \/ \E i \in 1..Len(r.similar_companies) :
           SimilarRaises(Lower(Chars[Get(r.company, "company_name", "")]),
                         r.similar_companies[i])
    \/ \E i \in 1..Len(r.officers) : OfficerRaises(r.officers[i])

(***************************************************************************)
(* The bundle under construction and its scoring                           *)
(***************************************************************************)
\* no scan is running
\* no export request
NoExport ==
    /\ export_pc = "idle"
    /\ export_number = ""
    /\ export_report = <<>>
    /\ export_response = <<>>

NoScan ==
    /\ request_arg = ""
    /\ company_number = <<>>
    /\ officers_left = <<>>
    /\ officer_entry = <<>>
    /\ linked = <<>>
    /\ address_built = <<>>
    /\ calls = <<>>
    /\ now = 0
    /\ response = <<>>
    /\ last_report = <<>>
    /\ NoExport

Init ==
    /\ report \in {NewReport(c) : c \in CompanyPool}
    /\ pc = "build"
    /\ NoScan

\* the bundle gains a similar company
AddSimilar ==
    /\ pc = "build"
    /\ HasRoom(report)
    /\ \E s \in SimilarPool(SimilarNumbers[Len(report.similar_companies) + 1]) :
           report' = [report EXCEPT !.similar_companies = Append(@, s)]
    /\ UNCHANGED <<pc, scan_vars>>

\* the bundle gains an officer summary
AddOfficer ==
    /\ pc = "build"
    /\ HasRoom(report)
    /\ \E o \in OfficerPool :
           report' = [report EXCEPT !.officers = Append(@, o)]
    /\ UNCHANGED <<pc, scan_vars>>

\* the bundle gains a charge
AddCharge ==
    /\ pc = "build"
    /\ HasRoom(report)
    /\ \E c \in ChargePool :
           report' = [report EXCEPT !.charges = Append(@, c)]
    /\ UNCHANGED <<pc, scan_vars>>

\* the bundle gains the insolvency record
SetInsolvency ==
    /\ pc = "build"
    /\ HasRoom(report)
    /\ report.insolvency = {}
    /\ report' = [report EXCEPT !.insolvency = InsolvencyRecord]
    /\ UNCHANGED <<pc, scan_vars>>

\* report = calculate_risk(report), on a new bundle or on a scored one
CalculateRisk ==
    /\ pc \in {"build", "scored"}
    /\ IF Raises(report)
       THEN pc' = "raised" /\ UNCHANGED report
       ELSE report' = calculate_risk(report) /\ pc' = "scored"
    /\ UNCHANGED scan_vars

Next == AddSimilar \/ AddOfficer \/ AddCharge \/ SetInsolvency \/ CalculateRisk

Spec == Init /\ [][Next]_vars

(***************************************************************************)
(* calculate_risk on bundles with absent collections and optional fields   *)
(***************************************************************************)
\* record d without the keys
Without(d, keys) == [k \in DOMAIN d \ keys |-> d[k]]

\* a similar company with or without its title, status and address snippet
LooseSimilars ==
    {Without(SimilarAt("00000001", "KESTREL ROOFING LTD.", "dissolved",
                       "4 Mill Lane, York, YO1"), keys) :
        keys \in SUBSET {"title", "company_status", "address_snippet"}}

\* an officer summary with or without its name
LooseOfficers ==
    {Without(o, keys) : o \in {Officer("A", 0, 0, 1), Officer("B", 1, 0, 1)},
                        keys \in SUBSET {"name"}}

\* a profile with or without its name
LooseCompanies ==
    {Without(PlainCompany, keys) : keys \in SUBSET {"company_name"}}

\* the bundles: at most one similar company and one officer, any of the
\* collections absent
LooseReports ==
    {Without([NewReport(c) EXCEPT !.similar_companies = similar_companies,
                                  !.officers = officers_found],
             keys) :
        c \in LooseCompanies,
        similar_companies \in {<<>>} \cup {<<x>> : x \in LooseSimilars},
        officers_found \in {<<>>} \cup {<<o>> : o \in LooseOfficers},
        keys \in SUBSET {"similar_companies", "officers", "charges", "insolvency"}}

InitLoose ==
    /\ report \in LooseReports
    /\ pc = "build"
    /\ NoScan

SpecLoose == InitLoose /\ [][CalculateRisk]_vars

(***************************************************************************)
(* build_address_string on the profiles it may be given                    *)
(***************************************************************************)
\* the text of each field of a registered office address that has one
AddressValues ==
    [address_line_1 |-> "4 Mill Lane", address_line_2 |-> "Unit 2",
     locality |-> "York", postal_code |-> "YO1"]

\* the registered office addresses: every field absent, empty or filled
AddressPool ==
    {[f \in present |-> IF f \in empty THEN "" ELSE AddressValues[f]] :
        present \in SUBSET DOMAIN AddressValues, empty \in SUBSET DOMAIN AddressValues}

\* the profiles build_address_string is applied to
AddressCompanies ==
    {CompanyAt("active", a) : a \in AddressPool} \cup {Company("active")}

InitAddress ==
    /\ report \in {NewReport(c) : c \in AddressCompanies}
    /\ pc = "address"
    /\ NoScan

\* address = build_address_string(company)
BuildAddress ==
    /\ pc = "address"
    /\ address_built' = build_address_string(report.company)
    /\ pc' = "address-built"
    /\ UNCHANGED <<report, request_arg, company_number, officers_left,
                   officer_entry, linked, calls, now, response, last_report,
                   export_vars>>

SpecAddress == InitAddress /\ [][BuildAddress]_vars

(***************************************************************************)
(* Text helpers of scan and deep_scan_company                              *)
(***************************************************************************)
\* the characters str.strip() removes
Whitespace == {9, 10, 11, 12, 13, 28, 29, 30, 31, 32}

\* the text as it came
Unstripped(s) == s

\* str.strip()
Strip(s) ==
    LET kept == {i \in 1..Len(s) : s[i] \notin Whitespace}
    IN  IF kept = {} THEN <<>> ELSE SubSeq(s, SetMin(kept), SetMax(kept))

\* the number a sequence of digit characters writes; -1 when it is not one
RECURSIVE Number(_)
Number(s) ==
    IF s = <<>> THEN -1
    ELSE IF s[Len(s)] \notin 48..57 THEN -1
    ELSE IF Len(s) = 1 THEN s[1] - 48
    ELSE IF Number(SubSeq(s, 1, Len(s) - 1)) = -1 THEN -1
    ELSE 10 * Number(SubSeq(s, 1, Len(s) - 1)) + (s[Len(s)] - 48)

\* s.split('-')
RECURSIVE SplitOnDash(_)
SplitOnDash(s) ==
    LET dashes == {i \in 1..Len(s) : s[i] = 45}
    IN  IF dashes = {} THEN <<s>>
        ELSE <<SubSeq(s, 1, SetMin(dashes) - 1)>>
                 \o SplitOnDash(SubSeq(s, SetMin(dashes) + 1, Len(s)))

IsLeap(y) == (y % 4 = 0 /\ y % 100 # 0) \/ y % 400 = 0

DaysInMonth(y, m) ==
    IF m = 2 THEN (IF IsLeap(y) THEN 29 ELSE 28)
    ELSE IF m \in {4, 6, 9, 11} THEN 30 ELSE 31

\* date(y, m, d).toordinal()
Ordinal(y, m, d) ==
    (y - 1) * 365 + (y - 1) \div 4 - (y - 1) \div 100 + (y - 1) \div 400
    + SumSeq([i \in 1..(m - 1) |-> DaysInMonth(y, i)], 1) + d

\* datetime.strptime(s, '%Y-%m-%d') as the ordinal of the day; -1 for
\* ValueError
Strptime(s) ==
    LET parts == SplitOnDash(s)
    IN  IF Len(parts) # 3 THEN -1
        ELSE IF Len(parts[1]) # 4 \/ Len(parts[2]) \notin {1, 2} \/ Len(parts[3]) \notin {1, 2}
        THEN -1
        ELSE IF Number(parts[1]) < 1 \/ Number(parts[2]) \notin 1..12
        THEN -1
        ELSE IF Number(parts[3]) \notin 1..DaysInMonth(Number(parts[1]), Number(parts[2]))
        THEN -1
        ELSE Ordinal(Number(parts[1]), Number(parts[2]), Number(parts[3]))

\* time is counted in half days: midnight of the day with ordinal n is 2n
HalfDaysPerDay == 2
Midnight(ordinal) == HalfDaysPerDay * ordinal

\* timedelta(days=730)
RecencyDays == 730

\* creation_date > datetime.now() - timedelta(days=730), at the reading t
\* of the clock
IsRecent(ordinal, t) == Midnight(ordinal) > t - HalfDaysPerDay * RecencyDays

(***************************************************************************)
(* The registry: what api_request may return to each call                  *)
(***************************************************************************)
MaxTicks == 1   \* how far the clock advances during a scan, in half days

\* lines 159-168: the two error results of api_request
NotFound == [error |-> "Not found", status_code |-> 404]
UpstreamError == [error |-> "HTTP 500: Internal Server Error"]
Failures == {NotFound, UpstreamError}

\* the texts the scan request may carry as company_number (none is as "")
RequestArgs == {"", "  ", "01234567", " 01234567 ", "09999999"}

\* another company on the register, without a registered office address
OtherNumber == "09999999"
OtherCompany ==
    [company_number |-> OtherNumber, company_name |-> TargetName,
     company_status |-> "dissolved"]

\* /company/{number}: the target and the other company are on the register
CompanyResults(number) ==
    Failures \cup
    (IF number = Chars[TargetNumber]
     THEN {PlainCompany, Company("active"), CompanyAt("dissolved", TargetAddress)}
     ELSE IF number = Chars[OtherNumber] THEN {OtherCompany}
     ELSE {})

\* /company/{number}/officers: no, one or two officers, the second without
\* a name
RawOfficer == [name |-> "REED, Alma", officer_role |-> "director"]
NamelessOfficer == [officer_role |-> "secretary"]
OfficersResults ==
    Failures \cup {[items |-> <<RawOfficer>>], [items |-> <<RawOfficer, NamelessOfficer>>]}

FilingResults == {UpstreamError, [items |-> <<[type |-> "AA"]>>]}
PscResults == {NotFound, [items |-> <<[kind |-> "individual-person-with-significant-control"]>>]}
ChargesResults == {NotFound, [items |-> <<[status |-> "outstanding"]>>]}
InsolvencyResults == {NotFound, [cases |-> <<[type |-> "creditors-voluntary-liquidation"]>>]}

\* a hit of /search/companies
Hit(number, title, status, date_of_creation) ==
    [company_number |-> number, title |-> title, company_status |-> status,
     date_of_creation |-> date_of_creation]

\* /search/companies?q={officer_name}: two companies incorporated on the
\* same day, or an old one and one with a malformed date
OfficerSearchResults ==
    {UpstreamError,
     [items |-> <<Hit("00000001", "KESTREL ROOFING LTD.", "dissolved", "2024-11-01"),
                  Hit("00000005", "Kestrel Hoofing Ltd.", "active", "2024-11-01")>>],
     [items |-> <<Hit("00000002", "KESTREL ROOFING L123", "liquidation", "2020-01-15"),
                  Hit("00000005", "Kestrel Hoofing Ltd.", "administration", "2024-02-30")>>]}

\* the target company as a search hit
SelfHit ==
    SimilarAt(TargetNumber, TargetName, "active", "4 Mill Lane, York, YO1")
NameHit ==
    SimilarAt("00000001", "KESTREL ROOFING LTD.", "dissolved", "4 Mill Lane, York, YO1")
OtherNameHit == Similar("00000002", "KESTREL ROOFING L123", "dissolved")
AddressHit ==
    SimilarAt("00000005", "Kestrel Hoofing Ltd.", "administration", "4 Mill Lane, York, YO1")

\* /search/companies?q={company_name}
NameSearchResults ==
    {UpstreamError, [items |-> <<SelfHit, NameHit, OtherNameHit>>], [items |-> <<OtherNameHit>>]}

\* /search/companies?q={address}
AddressSearchResults ==
    {NotFound, [items |-> <<NameHit, SelfHit, AddressHit, AddressHit>>],
     [items |-> <<AddressHit, OtherNameHit>>]}

\* the clock when the scan request arrives: noon of 31 October 2026
ScanStart == Midnight(Ordinal(2026, 10, 31)) + 1

\* a report scored by an earlier scan
EarlierReport == calculate_risk(NewReport(PlainCompany))

(***************************************************************************)
(* scan and deep_scan_company                                              *)
(***************************************************************************)
\* one registry call: the endpoint, what it was asked for and whether the
\* result carried an error
Call(api, by, q, result) ==
    [api |-> api, by |-> by, q |-> q, failed |-> "error" \in DOMAIN result]

\* lines 456-467: the report deep_scan_company starts with
EmptyReport ==
    [company |-> <<>>, officers |-> <<>>, filing_history |-> <<>>,
     psc |-> <<>>, charges |-> <<>>, insolvency |-> {},
     similar_companies |-> <<>>, flags |-> <<>>,
     risk_score |-> 0, phoenix_indicators |-> <<>>]

\* a dict as the set of its keys (the insolvency record is only tested for
\* being empty)
KeysOf(d) == DOMAIN d

InitScan ==
    /\ report = EmptyReport
    /\ pc = "request"
    /\ request_arg \in RequestArgs
    /\ company_number = <<>>
    /\ officers_left = <<>>
    /\ officer_entry = <<>>
    /\ linked = <<>>
    /\ address_built = <<>>
    /\ calls = <<>>
    /\ now = ScanStart
    /\ response = <<>>
    /\ last_report \in {<<>>, <<EarlierReport>>}
    /\ NoExport

\* lines 1620-1625: scan up to the call of deep_scan_company
Scan ==
    /\ pc = "request"
    /\ company_number' = Strip(Chars[request_arg])
    /\ IF Strip(Chars[request_arg]) = <<>>
       THEN /\ response' = <<[status |-> 400, body |-> "No company number provided"]>>
            /\ pc' = "returned"
       ELSE /\ response' = response
            /\ pc' = "get_company"
    /\ UNCHANGED <<report, officers_left, officer_entry, linked, address_built,
                   calls, now, last_report, request_arg, export_vars>>

\* a profile fetch whose error is stored as the profile
GetCompanyUnchecked ==
    /\ pc = "get_company"
    /\ \E company \in CompanyResults(company_number) :
           /\ calls' = Append(calls, Call("company", "number", company_number, company))
           /\ report' = [report EXCEPT !.company = company]
    /\ pc' = "get_officers"
    /\ UNCHANGED <<company_number, officers_left, officer_entry, linked,
                   address_built, now, response, last_report, request_arg, export_vars>>

\* lines 471-474 and 1627-1628: the profile fetch; on an error
\* deep_scan_company returns {'error': ...} and scan answers 400
GetCompany ==
    /\ pc = "get_company"
    /\ \E company \in CompanyResults(company_number) :
           /\ calls' = Append(calls, Call("company", "number", company_number, company))
           /\ IF "error" \in DOMAIN company
              THEN /\ response' = <<[status |-> 400, body |-> "Error", error |-> company.error]>>
                   /\ pc' = "returned"
                   /\ UNCHANGED report
              ELSE /\ report' = [report EXCEPT !.company = company]
                   /\ pc' = "get_officers"
                   /\ UNCHANGED response
    /\ UNCHANGED <<company_number, officers_left, officer_entry, linked,
                   address_built, now, last_report, request_arg, export_vars>>

\* lines 476-477
GetOfficers ==
    /\ pc = "get_officers"
    /\ \E officers_data \in OfficersResults :
           /\ calls' = Append(calls, Call("officers", "number", company_number, officers_data))
           /\ officers_left' = Get(officers_data, "items", <<>>)
    /\ pc' = "get_filing_history"
    /\ UNCHANGED <<report, company_number, officer_entry, linked, address_built,
                   now, response, last_report, request_arg, export_vars>>

\* a filing-history fetch that is made again when it failed
GetFilingHistoryAgain ==
    /\ pc = "get_filing_history"
    /\ \E filing_data \in FilingResults :
           /\ calls' = Append(calls, Call("filing-history", "number", company_number,
                                          filing_data))
           /\ report' = [report EXCEPT !.filing_history = Get(filing_data, "items", <<>>)]
           /\ pc' = IF "error" \in DOMAIN filing_data THEN pc ELSE "get_psc"
    /\ UNCHANGED <<company_number, officers_left, officer_entry, linked,
                   address_built, now, response, last_report, request_arg, export_vars>>

\* lines 479-480
GetFilingHistory ==
    /\ pc = "get_filing_history"
    /\ \E filing_data \in FilingResults :
           /\ calls' = Append(calls, Call("filing-history", "number", company_number,
                                          filing_data))
           /\ report' = [report EXCEPT !.filing_history = Get(filing_data, "items", <<>>)]
    /\ pc' = "get_psc"
    /\ UNCHANGED <<company_number, officers_left, officer_entry, linked,
                   address_built, now, response, last_report, request_arg, export_vars>>

\* lines 482-483
GetPsc ==
    /\ pc = "get_psc"
    /\ \E psc_data \in PscResults :
           /\ calls' = Append(calls, Call("persons-with-significant-control", "number",
                                          company_number, psc_data))
           /\ report' = [report EXCEPT !.psc = Get(psc_data, "items", <<>>)]
    /\ pc' = "get_charges"
    /\ UNCHANGED <<company_number, officers_left, officer_entry, linked,
                   address_built, now, response, last_report, request_arg, export_vars>>

\* a charges fetch after which the officers are taken up at once
GetChargesLast ==
    /\ pc = "get_charges"
    /\ \E charges_data \in ChargesResults :
           /\ calls' = Append(calls, Call("charges", "number", company_number, charges_data))
           /\ report' = [report EXCEPT !.charges = Get(charges_data, "items", <<>>)]
    /\ pc' = "officers"
    /\ UNCHANGED <<company_number, officers_left, officer_entry, linked,
                   address_built, now, response, last_report, request_arg, export_vars>>

\* lines 485-486
GetCharges ==
    /\ pc = "get_charges"
    /\ \E charges_data \in ChargesResults :
           /\ calls' = Append(calls, Call("charges", "number", company_number, charges_data))
           /\ report' = [report EXCEPT !.charges = Get(charges_data, "items", <<>>)]
    /\ pc' = "get_insolvency"
    /\ UNCHANGED <<company_number, officers_left, officer_entry, linked,
                   address_built, now, response, last_report, request_arg, export_vars>>

\* an insolvency fetch whose result is stored whatever it is
GetInsolvencyUnchecked ==
    /\ pc = "get_insolvency"
    /\ \E insolvency_data \in InsolvencyResults :
           /\ calls' = Append(calls, Call("insolvency", "number", company_number,
                                          insolvency_data))
           /\ report' = [report EXCEPT !.insolvency = KeysOf(insolvency_data)]
    /\ pc' = "officers"
    /\ UNCHANGED <<company_number, officers_left, officer_entry, linked,
                   address_built, now, response, last_report, request_arg, export_vars>>

\* lines 488-490
GetInsolvency ==
    /\ pc = "get_insolvency"
    /\ \E insolvency_data \in InsolvencyResults :
           /\ calls' = Append(calls, Call("insolvency", "number", company_number,
                                          insolvency_data))
           /\ report' = IF "error" \notin DOMAIN insolvency_data
                        THEN [report EXCEPT !.insolvency = KeysOf(insolvency_data)]
                        ELSE report
    /\ pc' = "officers"
    /\ UNCHANGED <<company_number, officers_left, officer_entry, linked,
                   address_built, now, response, last_report, request_arg, export_vars>>

\* lines 493-503: the summary an officer starts with
NewEntry(officer) ==
    [name |-> Get(officer, "name", "(unknown)"),
     role |-> Get(officer, "officer_role", ""),
     appointed_on |-> Get(officer, "appointed_on", ""),
     resigned_on |-> Get(officer, "resigned_on", ""),
     linked_companies |-> <<>>,
     dissolved_links |-> 0, liquidation_links |-> 0, recent_formations |-> 0]

\* lines 492-506: the next officer and the search by the officer's name
SearchOfficer ==
    /\ pc = "officers"
    /\ officers_left # <<>>
    /\ officer_entry' = <<NewEntry(Head(officers_left))>>
    /\ \E search \in OfficerSearchResults :
           /\ calls' = Append(calls, Call("search", "officer",
                                          Chars[NewEntry(Head(officers_left)).name], search))
           /\ linked' = Get(search, "items", <<>>)
    /\ pc' = "linked"
    /\ UNCHANGED <<report, company_number, officers_left, address_built, now,
                   response, last_report, request_arg, export_vars>>

\* lines 513-518
LinkedCompany(linked_company) ==
    [company_number |-> Get(linked_company, "company_number", ""),
     title |-> Get(linked_company, "title", ""),
     status |-> Get(linked_company, "company_status", ""),
     date_of_creation |-> Get(linked_company, "date_of_creation", "")]

\* status counters that take every suspicious status for a dissolution
CountStatusAsDissolved(entry, company_status) ==
    [entry EXCEPT
        !.dissolved_links = IF company_status \in suspicious_statuses THEN @ + 1 ELSE @]

\* lines 520-524: the status counters
CountStatus(entry, company_status) ==
    [entry EXCEPT
        !.dissolved_links =
            IF company_status \in suspicious_statuses /\ company_status = "dissolved"
            THEN @ + 1 ELSE @,
        !.liquidation_links =
            IF /\ company_status \in suspicious_statuses
               /\ company_status \in {"liquidation", "insolvency-proceedings"}
            THEN @ + 1 ELSE @]

\* lines 528-535: the recency test, with the clock read at t
CountRecent(entry, date_of_creation, t) ==
    IF /\ date_of_creation # ""
       /\ Strptime(Chars[date_of_creation]) # -1
       /\ IsRecent(Strptime(Chars[date_of_creation]), t)
    THEN [entry EXCEPT !.recent_formations = @ + 1]
    ELSE entry

\* lines 507-535: one linked company of the officer
Classify(entry, linked_company, t) ==
    CountRecent(
        CountStatus([entry EXCEPT !.linked_companies = Append(@, LinkedCompany(linked_company))],
                    Get(linked_company, "company_status", "")),
        Get(linked_company, "date_of_creation", ""), t)

\* line 526: the flag a linked company with a suspicious status leaves
Flag(officer_name, linked_company) ==
    [text |-> "Director linked to", officer_name |-> officer_name,
     company_title |-> Get(linked_company, "title", ""),
     company_status |-> Get(linked_company, "company_status", "")]

\* lines 507-535: one pass of the loop over search['items']
LinkCompany ==
    /\ pc = "linked"
    /\ linked # <<>>
    /\ officer_entry' = <<Classify(officer_entry[1], Head(linked), now)>>
    /\ report' =
           IF Get(Head(linked), "company_status", "") \in suspicious_statuses
           THEN [report EXCEPT !.flags = Append(@, Flag(officer_entry[1].name, Head(linked)))]
           ELSE report
    /\ linked' = Tail(linked)
    /\ UNCHANGED <<pc, company_number, officers_left, address_built, calls, now,
                   response, last_report, request_arg, export_vars>>

\* line 537
AppendOfficer ==
    /\ pc = "linked"
    /\ linked = <<>>
    /\ report' = [report EXCEPT !.officers = Append(@, officer_entry[1])]
    /\ officers_left' = Tail(officers_left)
    /\ officer_entry' = <<>>
    /\ pc' = "officers"
    /\ UNCHANGED <<company_number, linked, address_built, calls, now, response,
                   last_report, request_arg, export_vars>>

\* time passes; the clock is only read at line 531, so only the time that
\* passes while linked companies are classified is told apart
Tick ==
    /\ pc = "linked"
    /\ now < ScanStart + MaxTicks
    /\ now' = now + 1
    /\ UNCHANGED <<report, pc, company_number, officers_left, officer_entry,
                   linked, address_built, calls, response, last_report, request_arg, export_vars>>

\* lines 543-546: the hits of the name search other than the target
RECURSIVE NameHits(_, _)
NameHits(items, number) ==
    IF items = <<>> THEN <<>>
    ELSE IF Chars[Get(Head(items), "company_number", "")] # number
    THEN <<Head(items)>> \o NameHits(Tail(items), number)
    ELSE NameHits(Tail(items), number)

\* lines 539-546
NameSearch ==
    /\ pc = "officers"
    /\ officers_left = <<>>
    /\ IF Get(report.company, "company_name", "") # ""
       THEN \E similar \in NameSearchResults :
                /\ calls' = Append(calls, Call("search", "name",
                                               Chars[report.company.company_name], similar))
                /\ report' = [report EXCEPT !.similar_companies =
                                 @ \o NameHits(Get(similar, "items", <<>>), company_number)]
       ELSE UNCHANGED <<calls, report>>
    /\ pc' = "address_search"
    /\ UNCHANGED <<company_number, officers_left, officer_entry, linked,
                   address_built, now, response, last_report, request_arg, export_vars>>

\* the hit as the search returned it
Untagged(addr_company) == addr_company

\* addr_company['found_by'] = 'address'
Tagged(addr_company) ==
    [k \in DOMAIN addr_company \cup {"found_by"} |->
        IF k = "found_by" THEN "address" ELSE addr_company[k]]

\* the similar companies after every hit of the address search, other than
\* the target, is added
RECURSIVE AddressHitsAll(_, _, _)
AddressHitsAll(similar_companies, items, number) ==
    IF items = <<>> THEN similar_companies
    ELSE IF Chars[Get(Head(items), "company_number", "")] # number
    THEN AddressHitsAll(Append(similar_companies, Tagged(Head(items))), Tail(items), number)
    ELSE AddressHitsAll(similar_companies, Tail(items), number)

\* lines 552-558: the similar companies after the hits of the address search
RECURSIVE AddressHits(_, _, _)
AddressHits(similar_companies, items, number) ==
    IF items = <<>> THEN similar_companies
    ELSE IF /\ Chars[Get(Head(items), "company_number", "")] # number
            /\ ~\E i \in 1..Len(similar_companies) :
                   /\ "company_number" \in DOMAIN similar_companies[i]
                   /\ similar_companies[i].company_number
                        = Get(Head(items), "company_number", "")
    THEN AddressHits(Append(similar_companies, Tagged(Head(items))), Tail(items), number)
    ELSE AddressHits(similar_companies, Tail(items), number)

\* lines 548-558
AddressSearch ==
    /\ pc = "address_search"
    /\ address_built' = build_address_string(report.company)
    /\ IF build_address_string(report.company) # <<>>
       THEN \E address_search \in AddressSearchResults :
                /\ calls' = Append(calls, Call("search", "address",
                                               build_address_string(report.company),
                                               address_search))
                /\ report' = [report EXCEPT !.similar_companies =
                                 AddressHits(@, Get(address_search, "items", <<>>),
                                             company_number)]
       ELSE UNCHANGED <<calls, report>>
    /\ pc' = "score"
    /\ UNCHANGED <<company_number, officers_left, officer_entry, linked, now,
                   response, last_report, request_arg, export_vars>>

\* lines 560-562 and 1625-1630: the report is scored, cached and rendered
ScoreAndReturn ==
    /\ pc = "score"
    /\ IF Raises(report)
       THEN /\ response' = <<[status |-> 500, body |-> "Internal Server Error"]>>
            /\ UNCHANGED <<report, last_report>>
       ELSE /\ report' = calculate_risk(report)
            /\ last_report' = <<calculate_risk(report)>>
            /\ response' = <<[status |-> 200, body |-> "report"]>>
    /\ pc' = "returned"
    /\ UNCHANGED <<request_arg, company_number, officers_left, officer_entry,
                   linked, address_built, calls, now, export_vars>>

\* line 633, generate_csv_report: similar.get('found_by', 'name')
FoundBy(similar) == Get(similar, "found_by", "name")

NextScan ==
    \/ Scan
    \/ GetCompany
    \/ GetOfficers
    \/ GetFilingHistory
    \/ GetPsc
    \/ GetCharges
    \/ GetInsolvency
    \/ SearchOfficer
    \/ LinkCompany
    \/ AppendOfficer
    \/ Tick
    \/ NameSearch
    \/ AddressSearch
    \/ ScoreAndReturn

SpecScan == InitScan /\ [][NextScan]_vars

(***************************************************************************)
(* calculate_risk on bundles whose evidence grows and is reordered         *)
(***************************************************************************)
\* the officers, the similar companies and the links of the officers of a
\* bundle, counted together; the bundles have at most MaxEvidence of them
MaxEvidence == 6

\* how often the clock advances between two scorings
MaxLater == 1

Links(officers) ==
    SumSeq([i \in 1..Len(officers) |->
               officers[i].dissolved_links + officers[i].liquidation_links
               + officers[i].recent_formations], 1)

Evidence(r) == Len(r.officers) + Len(r.similar_companies) + Links(r.officers)

\* the counters of an officer summary
Counters == {"dissolved_links", "liquidation_links", "recent_formations"}

\* the search hits a similar company is drawn from
EvidenceHits == {NameHit, OtherNameHit, AddressHit}

\* seq with the elements at i and i + 1 exchanged
Swap(seq, i) ==
    [k \in 1..Len(seq) |-> IF k = i THEN seq[i + 1] ELSE IF k = i + 1 THEN seq[i] ELSE seq[k]]

\* report['officers'] and report['similar_companies'] of a collected bundle,
\* with or without an insolvency record
InitEvidence ==
    /\ report \in {NewReport(PlainCompany),
                   [NewReport(PlainCompany) EXCEPT !.insolvency = InsolvencyRecord]}
    /\ pc = "build"
    /\ NoScan

\* the bundle gains an officer without links
GainOfficer ==
    /\ pc = "build"
    /\ Evidence(report) < MaxEvidence
    /\ report' = [report EXCEPT !.officers =
                     Append(@, Officer(IF Len(@) % 2 = 0 THEN "A" ELSE "B", 0, 0, 0))]
    /\ UNCHANGED <<pc, scan_vars>>

\* one counter of one officer is one higher
RaiseCounter ==
    /\ pc = "build"
    /\ Evidence(report) < MaxEvidence
    /\ \E i \in 1..Len(report.officers), counter \in Counters :
           report' = [report EXCEPT !.officers[i][counter] = @ + 1]
    /\ UNCHANGED <<pc, scan_vars>>

\* the bundle gains a similar company
GainSimilar ==
    /\ pc = "build"
    /\ Evidence(report) < MaxEvidence
    /\ \E similar \in EvidenceHits :
           report' = [report EXCEPT !.similar_companies = Append(@, similar)]
    /\ UNCHANGED <<pc, scan_vars>>

\* the same officers in another order
SwapOfficers ==
    /\ pc = "build"
    /\ \E i \in 1..(Len(report.officers) - 1) :
           /\ report.officers[i] # report.officers[i + 1]
           /\ report' = [report EXCEPT !.officers = Swap(@, i)]
    /\ UNCHANGED <<pc, scan_vars>>

\* the same similar companies in another order
SwapSimilar ==
    /\ pc = "build"
    /\ \E i \in 1..(Len(report.similar_companies) - 1) :
           /\ report.similar_companies[i] # report.similar_companies[i + 1]
           /\ report' = [report EXCEPT !.similar_companies = Swap(@, i)]
    /\ UNCHANGED <<pc, scan_vars>>

\* time passes between two calls of calculate_risk
Later ==
    /\ pc = "scored"
    /\ now < MaxLater
    /\ now' = now + 1
    /\ UNCHANGED <<report, pc, request_arg, company_number, officers_left,
                   officer_entry, linked, address_built, calls, response,
                   last_report, export_vars>>

NextEvidence ==
    \/ GainOfficer
    \/ RaiseCounter
    \/ GainSimilar
    \/ SwapOfficers
    \/ SwapSimilar
    \/ Later
    \/ CalculateRisk

SpecEvidence == InitEvidence /\ [][NextEvidence]_vars

(***************************************************************************)
(* scan and download_report on one server                                  *)
(*                                                                         *)
(* scan touches app.config only in its last step (line 1630), so a scan    *)
(* is one step here; download_report reads app.config twice (lines 1872    *)
(* and 1875) and then works on its local `report`, so it is three steps    *)
(* between which scans may complete.                                       *)
(***************************************************************************)
\* lines 507-535: the loop over search['items'], with the clock at t
RECURSIVE ClassifyAll(_, _, _)
ClassifyAll(entry, items, t) ==
    IF items = <<>> THEN entry
    ELSE ClassifyAll(Classify(entry, Head(items), t), Tail(items), t)

\* line 526: the flags the hits of one officer leave
RECURSIVE FlagsOf(_, _)
FlagsOf(officer_name, items) ==
    IF items = <<>> THEN <<>>
    ELSE (IF Get(Head(items), "company_status", "") \in suspicious_statuses
          THEN <<Flag(officer_name, Head(items))>> ELSE <<>>)
         \o FlagsOf(officer_name, Tail(items))

\* lines 492-537: the officers, every search returning `search`
RECURSIVE OfficersOf(_, _, _)
OfficersOf(officers, search, t) ==
    IF officers = <<>> THEN <<>>
    ELSE <<ClassifyAll(NewEntry(Head(officers)), Get(search, "items", <<>>), t)>>
         \o OfficersOf(Tail(officers), search, t)

RECURSIVE AllFlags(_, _)
AllFlags(officers, search) ==
    IF officers = <<>> THEN <<>>
    ELSE FlagsOf(NewEntry(Head(officers)).name, Get(search, "items", <<>>))
         \o AllFlags(Tail(officers), search)

\* what the registry returns to the calls of one scan after the profile:
\* a failure every time, or results every time
Answers ==
    {[officers |-> NotFound, search |-> UpstreamError, filing |-> UpstreamError,
      psc |-> NotFound, charges |-> NotFound, insolvency |-> NotFound,
      similar |-> UpstreamError, address_search |-> NotFound],
     [officers |-> [items |-> <<RawOfficer, NamelessOfficer>>],
      search |-> [items |-> <<Hit("00000001", "KESTREL ROOFING LTD.", "dissolved",
                                  "2024-11-01"),
                              Hit("00000005", "Kestrel Hoofing Ltd.", "active",
                                  "2024-11-01")>>],
      filing |-> [items |-> <<[type |-> "AA"]>>],
      psc |-> [items |-> <<[kind |-> "individual-person-with-significant-control"]>>],
      charges |-> [items |-> <<[status |-> "outstanding"]>>],
      insolvency |-> [cases |-> <<[type |-> "creditors-voluntary-liquidation"]>>],
      similar |-> [items |-> <<SelfHit, NameHit, OtherNameHit>>],
      address_search |-> [items |-> <<NameHit, SelfHit, AddressHit, AddressHit>>]]}

\* lines 456-558: the bundle deep_scan_company collects for the profile
\* `company`, before it is scored
Collect(number, company, a, t) ==
    [EmptyReport EXCEPT
        !.company = company,
        !.officers = OfficersOf(Get(a.officers, "items", <<>>), a.search, t),
        !.flags = AllFlags(Get(a.officers, "items", <<>>), a.search),
        !.filing_history = Get(a.filing, "items", <<>>),
        !.psc = Get(a.psc, "items", <<>>),
        !.charges = Get(a.charges, "items", <<>>),
        !.insolvency = IF "error" \notin DOMAIN a.insolvency
                       THEN KeysOf(a.insolvency) ELSE {},
        !.similar_companies =
            AddressHits(
                IF Get(company, "company_name", "") # ""
                THEN NameHits(Get(a.similar, "items", <<>>), number) ELSE <<>>,
                IF build_address_string(company) # <<>>
                THEN Get(a.address_search, "items", <<>>) ELSE <<>>,
                number)]

\* the path argument of /download-report/<company_number>
ExportArgs == {"01234567", " 01234567 ", "09999999"}

\* lines 574-590: the rows of the report written from the profile and the
\* assessment (the rows of the other sections are not told apart)
generate_csv_report(r, t) ==
    [generated |-> t,
     company_name |-> Get(r.company, "company_name", "N/A"),
     company_number |-> Get(r.company, "company_number", "N/A"),
     company_status |-> Get(r.company, "company_status", "N/A"),
     is_phoenix |-> r.is_phoenix,
     phoenix_confidence |-> r.phoenix_confidence,
     risk_score |-> r.risk_score,
     risk_level |-> r.risk_level]

InitServe ==
    /\ report = EmptyReport
    /\ pc = "serve"
    /\ request_arg = ""
    /\ company_number = <<>>
    /\ officers_left = <<>>
    /\ officer_entry = <<>>
    /\ linked = <<>>
    /\ address_built = <<>>
    /\ calls = <<>>
    /\ now = ScanStart
    /\ response = <<>>
    /\ last_report = <<>>
    /\ NoExport

\* a scan request whose failure empties app.config['LAST_REPORT']
ScanRequestForgetful ==
    /\ pc = "serve"
    /\ \E arg \in RequestArgs :
           /\ request_arg' = arg
           /\ company_number' = Strip(Chars[arg])
           /\ IF Strip(Chars[arg]) = <<>>
              THEN /\ response' = <<[status |-> 400, body |-> "No company number provided"]>>
                   /\ report' = EmptyReport
                   /\ last_report' = <<>>
              ELSE \E company \in CompanyResults(Strip(Chars[arg])), a \in Answers :
                       IF "error" \in DOMAIN company
                       THEN /\ response' = <<[status |-> 400, body |-> "Error",
                                              error |-> company.error]>>
                            /\ report' = EmptyReport
                            /\ last_report' = <<>>
                       ELSE /\ report' = calculate_risk(
                                             Collect(Strip(Chars[arg]), company, a, now))
                            /\ last_report' = <<report'>>
                            /\ response' = <<[status |-> 200, body |-> "report"]>>
    /\ UNCHANGED <<pc, officers_left, officer_entry, linked, address_built, calls,
                   now, export_vars>>

\* lines 1617-1630: one scan request from its arrival to the write of
\* app.config['LAST_REPORT']
ScanRequest ==
    /\ pc = "serve"
    /\ \E arg \in RequestArgs :
           /\ request_arg' = arg
           /\ company_number' = Strip(Chars[arg])
           /\ IF Strip(Chars[arg]) = <<>>
              THEN /\ response' = <<[status |-> 400, body |-> "No company number provided"]>>
                   /\ report' = EmptyReport
                   /\ UNCHANGED last_report
              ELSE \E company \in CompanyResults(Strip(Chars[arg])), a \in Answers :
                       IF "error" \in DOMAIN company
                       THEN /\ response' = <<[status |-> 400, body |-> "Error",
                                              error |-> company.error]>>
                            /\ report' = EmptyReport
                            /\ UNCHANGED last_report
                       ELSE LET collected == Collect(Strip(Chars[arg]), company, a, now)
                            IN  IF Raises(collected)
                                THEN /\ response' = <<[status |-> 500,
                                                       body |-> "Internal Server Error"]>>
                                     /\ report' = collected
                                     /\ UNCHANGED last_report
                                ELSE /\ report' = calculate_risk(collected)
                                     /\ last_report' = <<report'>>
                                     /\ response' = <<[status |-> 200, body |-> "report"]>>
    /\ UNCHANGED <<pc, officers_left, officer_entry, linked, address_built, calls,
                   now, export_vars>>

\* a request for /download-report/<company_number> arrives
ExportRequest ==
    /\ pc = "serve"
    /\ export_pc \in {"idle", "done"}
    /\ \E arg \in ExportArgs : export_number' = arg
    /\ export_pc' = "check"
    /\ export_report' = <<>>
    /\ export_response' = <<>>
    /\ UNCHANGED <<report, pc, request_arg, company_number, officers_left,
                   officer_entry, linked, address_built, calls, now, response,
                   last_report>>

\* lines 1872-1873: if 'LAST_REPORT' not in app.config
ExportCheck ==
    /\ export_pc = "check"
    /\ IF last_report = <<>>
       THEN /\ export_response' =
                   <<[status |-> 404,
                      body |-> "No report available. Please run a scan first."]>>
            /\ export_pc' = "done"
       ELSE /\ export_pc' = "read"
            /\ UNCHANGED export_response
    /\ UNCHANGED <<report, pc, request_arg, company_number, officers_left,
                   officer_entry, linked, address_built, calls, now, response,
                   last_report, export_number, export_report>>

\* line 1875: report = app.config['LAST_REPORT']
ExportRead ==
    /\ export_pc = "read"
    /\ export_report' = last_report
    /\ export_pc' = "render"
    /\ UNCHANGED <<report, pc, request_arg, company_number, officers_left,
                   officer_entry, linked, address_built, calls, now, response,
                   last_report, export_number, export_response>>

\* a report written without the comparison of the company numbers
ExportRenderUnchecked ==
    /\ export_pc = "render"
    /\ export_response' =
           <<[status |-> 200,
              csv |-> generate_csv_report(export_report[1], now),
              download_name |-> export_number]>>
    /\ export_pc' = "done"
    /\ UNCHANGED <<report, pc, request_arg, company_number, officers_left,
                   officer_entry, linked, address_built, calls, now, response,
                   last_report, export_number, export_report>>

\* a report written from app.config['LAST_REPORT'] as it is by then
ExportRenderLatest ==
    /\ export_pc = "render"
    /\ export_response' =
           IF \/ "company_number" \notin DOMAIN export_report[1].company
              \/ export_report[1].company.company_number # export_number
           THEN <<[status |-> 404, body |-> "Report mismatch. Please run a new scan."]>>
           ELSE <<[status |-> 200,
                   csv |-> generate_csv_report(last_report[1], now),
                   download_name |-> export_number]>>
    /\ export_pc' = "done"
    /\ UNCHANGED <<report, pc, request_arg, company_number, officers_left,
                   officer_entry, linked, address_built, calls, now, response,
                   last_report, export_number, export_report>>

\* lines 1877-1891: the comparison of the company numbers and the report
\* written from the local `report`
ExportRender ==
    /\ export_pc = "render"
    /\ export_response' =
           IF \/ "company_number" \notin DOMAIN export_report[1].company
              \/ export_report[1].company.company_number # export_number
           THEN <<[status |-> 404, body |-> "Report mismatch. Please run a new scan."]>>
           ELSE <<[status |-> 200,
                   csv |-> generate_csv_report(export_report[1], now),
                   download_name |-> export_number]>>
    /\ export_pc' = "done"
    /\ UNCHANGED <<report, pc, request_arg, company_number, officers_left,
                   officer_entry, linked, address_built, calls, now, response,
                   last_report, export_number, export_report>>

NextServe ==
    \/ ScanRequest
    \/ ExportRequest
    \/ ExportCheck
    \/ ExportRead
    \/ ExportRender

SpecServe == InitServe /\ [][NextServe]_vars

(***************************************************************************)
(* Properties of the scoring engine                                        *)
(***************************************************************************)
Scored == pc = "scored"

Count(seq, Test(_)) == Len(SelectSeq(seq, Test))

CountType(indicators, type) == Count(indicators, LAMBDA ind : ind.type = type)

\* the name similarity of every search result to every profile, by their
\* texts
NameRatios ==
    [name \in {c.company_name : c \in CompanyPool} |->
        [title \in {s.title : s \in SimilarPool("")} |->
            ratio100(Lower(Chars[name]), Lower(Chars[title]))]]

\* the name similarity of a similar company to the company of report r
NameSimilarity(r, similar) == NameRatios[r.company.company_name][similar.title]

\* the unclamped score and the locals calculate_risk ends with on report
UnclampedScore == RiskRules(report).risk_score
UnclampedConfidence == Verdict(RiskRules(report), report.officers).phoenix_confidence

\* C1: the risk_score calculate_risk writes is an integer in [0,100],
\* however many rules fire.
C1_RiskScoreInRange == Scored => report.risk_score \in 0..100

\* a scored bundle whose rules add up to more than 100
C1_Witness == Scored /\ UnclampedScore > 100 /\ report.risk_score = 100

\* C2: whenever the phoenix_confidence calculate_risk writes is >= 60,
\* is_phoenix is 'YES'.
C2_ConfidenceImpliesVerdict ==
    Scored /\ report.phoenix_confidence >= 60 => report.is_phoenix = "YES"

\* C3: the phoenix_confidence calculate_risk writes is an integer in
\* [0,100], also when every confidence trigger fires.
C3_ConfidenceInRange == Scored => report.phoenix_confidence \in 0..100

\* a scored bundle on which all six triggers fired and the sum passed 100
C3_Witness ==
    /\ Scored
    /\ Len(report.phoenix_reasons) = 6
    /\ UnclampedConfidence > 100
    /\ report.phoenix_confidence = 100

\* C4: scoring a bundle that is already scored changes none of the six
\* assessment keys (nor anything else of the report).
C4_Idempotent == [][Scored /\ CalculateRisk => report' = report]_vars

\* a scored bundle with indicators, a positive confidence and a verdict,
\* on which calculate_risk can run again
C4_Witness ==
    /\ Scored
    /\ Len(report.phoenix_indicators) >= 3
    /\ report.phoenix_confidence > 0
    /\ report.is_phoenix = "YES"
    /\ ENABLED CalculateRisk

(***************************************************************************)
(* The rule table, stated over the bundle                                  *)
(***************************************************************************)
\* the statuses a name match is looked for in
DissolvedLike == {"dissolved", "liquidation", "insolvency-proceedings"}

\* a similarity of at least p per cent
NotBelow(sim, p) == sim[1] >= p * sim[2]

\* similar is a candidate of report r at >= 85%, at [70,85)%
IsHigh(r, similar) ==
    /\ Get(similar, "company_status", "") \in DissolvedLike
    /\ NotBelow(NameSimilarity(r, similar), 85)
IsMedium(r, similar) ==
    /\ Get(similar, "company_status", "") \in DissolvedLike
    /\ NotBelow(NameSimilarity(r, similar), 70)
    /\ ~NotBelow(NameSimilarity(r, similar), 85)

HighCount(r) == Count(r.similar_companies, LAMBDA s : IsHigh(r, s))
MediumCount(r) == Count(r.similar_companies, LAMBDA s : IsMedium(r, s))
NameMatchCount(r) == HighCount(r) + MediumCount(r)

\* the address similarity of every search result that has an address
\* snippet to every profile
AddressRatios ==
    [c \in CompanyPool |->
        [snippet \in {s.address_snippet :
                         s \in {x \in SimilarPool("") : "address_snippet" \in DOMAIN x}} |->
            ratio100(Lower(build_address_string(c)), Lower(Chars[snippet]))]]

\* the address text of every profile
AddressTexts == [c \in CompanyPool |-> build_address_string(c)]

\* the address similarity of a similar company to the company of report r
AddressSimilarity(r, similar) == AddressRatios[r.company][similar.address_snippet]

\* the similar companies whose address snippet is more than 85% similar to
\* the address of the profile, when the profile has one
AddressMatchCount(r) ==
    IF AddressTexts[r.company] = <<>> THEN 0
    ELSE Count(r.similar_companies,
               LAMBDA s : /\ "address_snippet" \in DOMAIN s
                          /\ AddressSimilarity(r, s)[1] > 85 * AddressSimilarity(r, s)[2])

OutstandingCount(r) == Count(r.charges, LAMBDA c : Get(c, "status", "") = "outstanding")

\* what the officer rules add for one officer, and how many of them fire
OfficerDelta(o) ==
    (IF o.dissolved_links >= 3 THEN 30 ELSE IF o.dissolved_links = 2 THEN 20 ELSE 0)
    + (IF o.liquidation_links >= 2 THEN 40 ELSE IF o.liquidation_links = 1 THEN 20 ELSE 0)
    + (IF o.dissolved_links >= 1 /\ o.recent_formations >= 1 THEN 25 ELSE 0)
OfficerFired(o) ==
    (IF o.dissolved_links >= 2 THEN 1 ELSE 0)
    + (IF o.liquidation_links >= 1 THEN 1 ELSE 0)
    + (IF o.dissolved_links >= 1 /\ o.recent_formations >= 1 THEN 1 ELSE 0)

\* the deltas of the rules other than the per-candidate and per-officer ones
StatusDelta(r) ==
    IF Get(r.company, "company_status", "")
         \in {"dissolved", "liquidation", "insolvency-proceedings", "receivership",
              "administration"}
    THEN 30 ELSE 0
RecyclingDelta(r) ==
    IF NameMatchCount(r) >= 3 THEN 30 ELSE IF NameMatchCount(r) = 2 THEN 20 ELSE 0
AddressDelta(r) ==
    IF AddressMatchCount(r) >= 5 THEN 35
    ELSE IF AddressMatchCount(r) \in {3, 4} THEN 25 ELSE 0
ChargesDelta(r) == IF OutstandingCount(r) > 0 THEN 10 ELSE 0
InsolvencyDelta(r) == IF r.insolvency # {} THEN 40 ELSE 0

\* S: the sum of the deltas of the triggered rules
TableSum(r) ==
    StatusDelta(r) + 25 * HighCount(r) + 15 * MediumCount(r) + RecyclingDelta(r)
    + SumSeq([i \in 1..Len(r.officers) |-> OfficerDelta(r.officers[i])], 1)
    + AddressDelta(r) + ChargesDelta(r) + InsolvencyDelta(r)

\* the number of triggered rules
TableFired(r) ==
    (IF StatusDelta(r) > 0 THEN 1 ELSE 0) + HighCount(r) + MediumCount(r)
    + (IF RecyclingDelta(r) > 0 THEN 1 ELSE 0)
    + SumSeq([i \in 1..Len(r.officers) |-> OfficerFired(r.officers[i])], 1)
    + (IF AddressDelta(r) > 0 THEN 1 ELSE 0)
    + (IF ChargesDelta(r) > 0 THEN 1 ELSE 0)
    + (IF InsolvencyDelta(r) > 0 THEN 1 ELSE 0)

\* C5: risk_score is min(100, S) for the sum S of the deltas of the
\* triggered rules of the rule table, every triggered rule appends exactly
\* one indicator, and so risk_score is 0 exactly when no indicator is listed.
C5_ScoreIsClampedSum ==
    Scored =>
        LET S == TableSum(report)
        IN  /\ report.risk_score = (IF S > 100 THEN 100 ELSE S)
            /\ Len(report.phoenix_indicators) = TableFired(report)
            /\ (report.risk_score = 0) <=> (report.phoenix_indicators = <<>>)

\* a scored bundle below the clamp on which a name rule, an officer rule and
\* the charges rule fired, the latter on two outstanding charges
C5_Witness ==
    /\ Scored
    /\ TableSum(report) \in 1..99
    /\ NameMatchCount(report) >= 1
    /\ \E i \in 1..Len(report.officers) : OfficerFired(report.officers[i]) >= 1
    /\ OutstandingCount(report) = 2
    /\ report.risk_score = TableSum(report)

\* C6: risk_level is decided by the clamped risk_score alone: CRITICAL iff
\* score >= 70, HIGH iff 50 <= score < 70, MEDIUM iff 30 <= score < 50, LOW
\* iff score < 30, whatever the phoenix verdict.
C6_LevelFromScore ==
    Scored =>
        /\ report.is_phoenix \in {"YES", "NO"}
        /\ (report.risk_level = "CRITICAL") <=> (report.risk_score >= 70)
        /\ (report.risk_level = "HIGH") <=> (report.risk_score \in 50..69)
        /\ (report.risk_level = "MEDIUM") <=> (report.risk_score \in 30..49)
        /\ (report.risk_level = "LOW") <=> (report.risk_score < 30)

\* a scored bundle exactly on the CRITICAL threshold whose verdict is NO
C6_Witness ==
    /\ Scored
    /\ report.risk_score = 70
    /\ report.risk_level = "CRITICAL"
    /\ report.is_phoenix = "NO"

\* C7: a profile with a suspicious status and no officers, similar
\* companies, charges or insolvency record scores 30, MEDIUM, with exactly
\* one indicator, company_status of severity high; a profile with any other
\* status gets no company_status indicator.
C7_StatusAlone ==
    Scored =>
        IF report.company.company_status
             \in {"dissolved", "liquidation", "insolvency-proceedings", "receivership",
                  "administration"}
        THEN Items(report) = 0 =>
                 /\ report.risk_score = 30
                 /\ report.risk_level = "MEDIUM"
                 /\ Len(report.phoenix_indicators) = 1
                 /\ report.phoenix_indicators[1].type = "company_status"
                 /\ report.phoenix_indicators[1].severity = "high"
        ELSE CountType(report.phoenix_indicators, "company_status") = 0

\* a scored profile in receivership with nothing else in its bundle
C7_Witness ==
    /\ Scored
    /\ Items(report) = 0
    /\ report.company.company_status = "receivership"
    /\ CountType(report.phoenix_indicators, "company_status") = 1

\* the verdict and the reasons of a bundle no trigger fired on
NoPattern(r) ==
    /\ r.is_phoenix = "NO"
    /\ Len(r.phoenix_reasons) = 1
    /\ r.phoenix_reasons[1].text
         = "No clear phoenix patterns detected based on name, director, or address analysis"

\* C8 as stated: every bundle with no officers, similar companies, charges
\* or insolvency record scores 0, LOW, with verdict NO and the single canned
\* reason.
C8_EveryEmptyBundle ==
    Scored /\ Items(report) = 0 =>
        /\ report.risk_score = 0
        /\ report.risk_level = "LOW"
        /\ NoPattern(report)

\* C8: every bundle with no officers, similar companies, charges or
\* insolvency record gets verdict NO and the single canned reason; it scores
\* 0, LOW when the status of its profile is not a suspicious one, and 30,
\* MEDIUM when it is.
C8_EmptyBundle ==
    Scored /\ Items(report) = 0 =>
        /\ NoPattern(report)
        /\ IF report.company.company_status
                \in {"dissolved", "liquidation", "insolvency-proceedings", "receivership",
                     "administration"}
           THEN report.risk_score = 30 /\ report.risk_level = "MEDIUM"
           ELSE report.risk_score = 0 /\ report.risk_level = "LOW"

\* a scored profile under a voluntary arrangement with nothing else in its
\* bundle
C8_Witness ==
    /\ Scored
    /\ Items(report) = 0
    /\ report.company.company_status = "voluntary-arrangement"
    /\ report.risk_score = 0
    /\ report.phoenix_indicators = <<>>

\* the name_recycling indicators of a scored report
Recycling(r) == SelectSeq(r.phoenix_indicators, LAMBDA ind : ind.type = "name_recycling")

\* C9: every candidate with a high or medium name indicator also counts
\* toward name recycling: the name_recycling indicator goes by the number
\* of all such candidates, and n >= 3 candidates at >= 85% give n
\* high_name_similarity indicators and one critical name_recycling
\* indicator, at least 25n + 30 before the clamp, hence risk_score 100.
C9_BothContributionsCount ==
    Scored =>
        /\ CountType(report.phoenix_indicators, "high_name_similarity") = HighCount(report)
        /\ CountType(report.phoenix_indicators, "name_similarity") = MediumCount(report)
        /\ NameMatchCount(report) < 2 => Recycling(report) = <<>>
        /\ NameMatchCount(report) >= 2 =>
               /\ Len(Recycling(report)) = 1
               /\ Recycling(report)[1].description.n = NameMatchCount(report)
               /\ Recycling(report)[1].severity
                    = (IF NameMatchCount(report) >= 3 THEN "critical" ELSE "high")
        /\ HighCount(report) >= 3 =>
               /\ UnclampedScore >= 25 * HighCount(report) + 30
               /\ report.risk_score = 100

\* a scored bundle of exactly three candidates at >= 85% and nothing else:
\* four indicators, 105 before the clamp, risk_score 100
C9_Witness ==
    /\ Scored
    /\ HighCount(report) = 3
    /\ Len(report.phoenix_indicators) = 4
    /\ CountType(report.phoenix_indicators, "high_name_similarity") = 3
    /\ Recycling(report)[1].severity = "critical"
    /\ UnclampedScore = 105
    /\ report.risk_score = 100

\* the indicators of the given type that name the company number
IndicatorsOf(r, type, number) ==
    Count(r.phoenix_indicators,
          LAMBDA ind : ind.type = type /\ ind.description.number = number)

\* the entries of a sequence of similar companies with the company number
EntriesOf(similar_companies, number) ==
    Count(similar_companies, LAMBDA s : s.company_number = number)

\* C10: the name thresholds are inclusive: a candidate at >= 85% (85%
\* itself too) gets the high indicator and not the medium one, a candidate
\* at >= 70% and below 85% (70% itself too) gets the medium one and not the
\* high one, and a candidate below 70% gets neither and is not counted
\* toward name recycling.
C10_InclusiveThresholds ==
    Scored =>
        \A i \in 1..Len(report.similar_companies) :
            LET similar == report.similar_companies[i]
                number == similar.company_number
                entries == EntriesOf(report.similar_companies, number)
                high == IndicatorsOf(report, "high_name_similarity", number)
                medium == IndicatorsOf(report, "name_similarity", number)
                counted == EntriesOf(RiskRules(report).name_recycling_dissolved, number)
            IN  /\ IsHigh(report, similar) => high = entries /\ medium = 0
                /\ IsMedium(report, similar) => medium = entries /\ high = 0
                /\ ~NotBelow(NameSimilarity(report, similar), 70) =>
                       high = 0 /\ medium = 0 /\ counted = 0
                /\ high = 0 \/ medium = 0

\* similar is a candidate of report r at exactly p per cent
Exactly(r, similar, p) ==
    /\ Get(similar, "company_status", "") \in DissolvedLike
    /\ NameSimilarity(r, similar)[1] = p * NameSimilarity(r, similar)[2]

\* a scored bundle with a candidate at exactly 70% that got the medium
\* indicator, one at exactly 85% that got the high indicator and one below
\* 70% that got none
C10_Witness ==
    /\ Scored
    /\ \E i \in 1..Len(report.similar_companies) :
           /\ Exactly(report, report.similar_companies[i], 70)
           /\ IndicatorsOf(report, "name_similarity",
                           report.similar_companies[i].company_number) = 1
    /\ \E i \in 1..Len(report.similar_companies) :
           /\ Exactly(report, report.similar_companies[i], 85)
           /\ IndicatorsOf(report, "high_name_similarity",
                           report.similar_companies[i].company_number) = 1
    /\ \E i \in 1..Len(report.similar_companies) :
           /\ report.similar_companies[i].company_status \in DissolvedLike
           /\ ~NotBelow(NameSimilarity(report, report.similar_companies[i]), 70)

(***************************************************************************)
(* The confidence table, stated over the bundle                            *)
(***************************************************************************)
PhoenixDirectorCount(r) ==
    Count(r.officers, LAMBDA o : o.dissolved_links >= 1 /\ o.recent_formations >= 1)
SerialDirectorCount(r) == Count(r.officers, LAMBDA o : o.dissolved_links >= 3)
HighLiquidationCount(r) == Count(r.officers, LAMBDA o : o.liquidation_links >= 2)

\* the six triggers in order: what each adds, and the text of its reason
ConfidenceTable(r) ==
    <<[delta |-> IF PhoenixDirectorCount(r) >= 2 THEN 40
                 ELSE IF PhoenixDirectorCount(r) = 1 THEN 25 ELSE 0,
       text |-> IF PhoenixDirectorCount(r) >= 2
                THEN "directors show phoenix patterns (dissolved companies + recent formations)"
                ELSE "director shows phoenix pattern (dissolved companies + recent formations)"],
      [delta |-> IF HighLiquidationCount(r) >= 1 THEN 35 ELSE 0,
       text |-> "director(s) linked to multiple liquidations/insolvencies"],
      [delta |-> IF NameMatchCount(r) >= 3 THEN 30
                 ELSE IF NameMatchCount(r) = 2 THEN 20 ELSE 0,
       text |-> IF NameMatchCount(r) >= 3
                THEN "Name recycling detected: similar dissolved companies"
                ELSE "Possible name recycling: similar dissolved companies"],
      [delta |-> IF r.insolvency # {} /\ PhoenixDirectorCount(r) >= 1 THEN 30 ELSE 0,
       text |-> "Insolvency history combined with directors forming new companies"],
      [delta |-> IF AddressMatchCount(r) >= 3 /\ NameMatchCount(r) >= 2 THEN 25 ELSE 0,
       text |-> "Multiple companies with same address and similar names"],
      [delta |-> IF SerialDirectorCount(r) >= 1 /\ NameMatchCount(r) >= 2 THEN 20 ELSE 0,
       text |-> "serial director(s) with name recycling pattern"]>>

\* C: the sum of the contributions, and the triggers that contribute
ConfidenceSum(r) == SumSeq([i \in 1..6 |-> ConfidenceTable(r)[i].delta], 1)
Contributing(r) == SelectSeq(ConfidenceTable(r), LAMBDA t : t.delta > 0)

\* C19: phoenix_confidence is min(100, C) for the sum C of the six
\* triggers, a function of the officers, the name and address matches and
\* the insolvency record only; phoenix_reasons has one reason for every
\* contributing trigger, in the order of the triggers, or the single canned
\* reason when no trigger contributes.
C19_ConfidenceIsClampedSum ==
    Scored =>
        LET C == ConfidenceSum(report)
            fired == Contributing(report)
        IN  /\ report.phoenix_confidence = (IF C > 100 THEN 100 ELSE C)
            /\ IF fired = <<>>
               THEN /\ Len(report.phoenix_reasons) = 1
                    /\ report.phoenix_reasons[1].text
                         = "No clear phoenix patterns detected based on name, director, or address analysis"
               ELSE [i \in 1..Len(report.phoenix_reasons) |-> report.phoenix_reasons[i].text]
                      = [i \in 1..Len(fired) |-> fired[i].text]

\* a scored bundle with three contributing triggers whose confidence stays
\* below 100 while its risk score is clamped to 100
C19_Witness ==
    /\ Scored
    /\ Len(Contributing(report)) = 3
    /\ Len(report.phoenix_reasons) = 3
    /\ report.phoenix_confidence = ConfidenceSum(report)
    /\ report.phoenix_confidence < 100
    /\ report.risk_score = 100

(***************************************************************************)
(* Properties of build_address_string                                      *)
(***************************************************************************)
\* the components of the address of a profile: the texts of address line 1,
\* address line 2, locality and postal code, in that order, without the
\* missing and the empty ones
Components(company) ==
    IF "registered_office_address" \notin DOMAIN company THEN <<>>
    ELSE LET a == company.registered_office_address
             given == SelectSeq(<<"address_line_1", "address_line_2", "locality",
                                  "postal_code">>,
                                LAMBDA f : f \in DOMAIN a /\ a[f] # "")
         IN  [i \in 1..Len(given) |-> Chars[a[given[i]]]]

\* where component i starts in the joined text, less one
Offset(parts, i) == SumSeq([j \in 1..(i - 1) |-> Len(parts[j]) + 1], 1)

\* C11: build_address_string returns the non-empty components among
\* address line 1, address line 2, locality and postal code, in that
\* order, with exactly one space between neighbours and none before the
\* first or after the last; with no component the result is empty.
C11_AddressString ==
    pc = "address-built" =>
        LET parts == Components(report.company)
            k == Len(parts)
        IN  /\ k = 0 => address_built = <<>>
            /\ k > 0 =>
                   /\ Len(address_built) = Offset(parts, k) + Len(parts[k])
                   /\ \A i \in 1..k :
                          SubSeq(address_built, Offset(parts, i) + 1,
                                 Offset(parts, i) + Len(parts[i])) = parts[i]
                   /\ \A i \in 2..k : address_built[Offset(parts, i)] = 32
                   /\ address_built[1] # 32
                   /\ address_built[Len(address_built)] # 32

\* a profile whose address has an empty line 1, no line 2, a locality and
\* a postal code: the address built is "York YO1"
C11_Witness ==
    /\ pc = "address-built"
    /\ "registered_office_address" \in DOMAIN report.company
    /\ report.company.registered_office_address
         = [address_line_1 |-> "", locality |-> "York", postal_code |-> "YO1"]
    /\ address_built = Chars["York YO1"]

(***************************************************************************)
(* Properties of calculate_risk on loose bundles                           *)
(***************************************************************************)
\* C18: calculate_risk never fails, whichever collections are absent or
\* empty and whichever of name, title, status and address snippet the
\* officers and similar companies lack.
C18_NeverFails == pc # "raised"

(***************************************************************************)
(* Properties of scan and deep_scan_company                                *)
(***************************************************************************)
Blank(text) == \A i \in 1..Len(Chars[text]) : Chars[text][i] \in Whitespace

Rejected == <<[status |-> 400, body |-> "No company number provided"]>>

\* C20: a scan request whose company number is empty once the surrounding
\* whitespace is trimmed is answered with the rejection "No company number
\* provided" (status 400) in the one step that handles it, no registry
\* call is made, and the cached last report stays as it was.
C20_BlankRejected ==
    [][(pc = "request" /\ Blank(request_arg))
          => /\ pc' = "returned"
             /\ response' = Rejected
             /\ calls = <<>> /\ calls' = <<>>
             /\ last_report' = last_report]_vars

\* a request of two spaces was rejected with an earlier report in the cache
C20_Witness ==
    /\ pc = "returned"
    /\ request_arg = "  "
    /\ response = Rejected
    /\ calls = <<>>
    /\ last_report = <<EarlierReport>>

\* the profile fetch is the first registry call
ProfileFailed == calls # <<>> /\ calls[1].failed

\* C12: when the profile fetch fails (not found, or any other error), the
\* scan is over with that one registry call: nothing was collected, the
\* bundle was not scored, and the answer is the error message alone.
C12_ProfileFailureAborts ==
    ProfileFailed =>
        /\ pc = "returned"
        /\ Len(calls) = 1
        /\ calls[1].api = "company"
        /\ report = EmptyReport
        /\ "risk_level" \notin DOMAIN report
        /\ Len(response) = 1
        /\ response[1].status = 400
        /\ DOMAIN response[1] = {"status", "body", "error"}
        /\ response[1].error \in {f.error : f \in Failures}

\* the registry did not know the company
C12_Witness ==
    /\ pc = "returned"
    /\ ProfileFailed
    /\ Len(calls) = 1
    /\ response = <<[status |-> 400, body |-> "Error", error |-> NotFound.error]>>

\* a call of the registry about the scanned company failed
Failed(api) == \E i \in 1..Len(calls) : calls[i].api = api /\ calls[i].failed

\* a search of the given kind failed
FailedSearch(by) ==
    \E i \in 1..Len(calls) : calls[i].api = "search" /\ calls[i].by = by /\ calls[i].failed

\* the searches by officer name, in the order they were made
OfficerSearches == SelectSeq(calls, LAMBDA c : c.api = "search" /\ c.by = "officer")

\* the scan is over and the profile fetch had succeeded
Collected == pc = "returned" /\ calls # <<>> /\ ~calls[1].failed

\* C13: when the profile fetch succeeds, the scan ends with the scored
\* bundle (status 200, the six assessment keys set, the bundle cached),
\* whichever secondary calls failed, and every failed call leaves its
\* section empty: no officers, no filing history, no PSC, no charges, an
\* empty insolvency record, no linked companies for the officer whose
\* search failed, no candidate of the name search, no candidate of the
\* address search.
C13_SecondaryFailuresLeaveEmpty ==
    Collected =>
        /\ response = <<[status |-> 200, body |-> "report"]>>
        /\ AssessmentKeys \subseteq DOMAIN report
        /\ last_report = <<report>>
        /\ Failed("officers") => report.officers = <<>>
        /\ Failed("filing-history") => report.filing_history = <<>>
        /\ Failed("persons-with-significant-control") => report.psc = <<>>
        /\ Failed("charges") => report.charges = <<>>
        /\ Failed("insolvency") => report.insolvency = {}
        /\ Len(OfficerSearches) = Len(report.officers)
        /\ \A k \in 1..Len(report.officers) :
               OfficerSearches[k].failed
                   => /\ report.officers[k].linked_companies = <<>>
                      /\ report.officers[k].dissolved_links = 0
                      /\ report.officers[k].liquidation_links = 0
                      /\ report.officers[k].recent_formations = 0
        /\ FailedSearch("name")
               => \A i \in 1..Len(report.similar_companies) :
                      "found_by" \in DOMAIN report.similar_companies[i]
        /\ FailedSearch("address")
               => \A i \in 1..Len(report.similar_companies) :
                      "found_by" \notin DOMAIN report.similar_companies[i]

\* a scan with an officer in which every call after the officer list
\* failed
C13_Witness ==
    /\ Collected
    /\ Len(calls) = 9
    /\ ~calls[2].failed
    /\ \A i \in 3..9 : calls[i].failed
    /\ Len(report.officers) = 1
    /\ response[1].status = 200
    /\ report.risk_level \in {"LOW", "MEDIUM"}

\* the six fetches about the scanned company, in the order of the code
Fetches ==
    <<"company", "officers", "filing-history", "persons-with-significant-control",
      "charges", "insolvency">>

\* the searches, in the order of the code
SearchRank(by) == CASE by = "officer" -> 1 [] by = "name" -> 2 [] by = "address" -> 3

\* the officers whose search was made: those appended to the bundle and
\* the one being worked on
Searched == [k \in 1..Len(report.officers) |-> report.officers[k].name] \o
            [k \in 1..Len(officer_entry) |-> officer_entry[k].name]

\* the place a call has in the sequence profile, officer list and each
\* officer's search, the four other fetches, name search, address search
StatedRank(c) ==
    CASE c.api = "company" -> 1
      [] c.api = "officers" -> 2
      [] c.api = "search" /\ c.by = "officer" -> 2
      [] c.api \in {"filing-history", "persons-with-significant-control",
                    "charges", "insolvency"} -> 3
      [] c.api = "search" /\ c.by = "name" -> 4
      [] c.api = "search" /\ c.by = "address" -> 5

RecentAt(entry, t) ==
    Count(entry.linked_companies,
          LAMBDA c : /\ c.date_of_creation # ""
                     /\ Strptime(Chars[c.date_of_creation]) # -1
                     /\ IsRecent(Strptime(Chars[c.date_of_creation]), t))

\* C15: within one scan every linked company of every officer is compared
\* against one cutoff instant: there is an instant of the scan whose
\* 730-day cutoff accounts for the recent_formations of every officer, so
\* that linked companies with the same incorporation date are classified
\* alike.
C15_OneCutoff ==
    \E t \in ScanStart..(ScanStart + MaxTicks) :
        \A k \in 1..Len(Searched) :
            LET entry == IF k <= Len(report.officers) THEN report.officers[k]
                         ELSE officer_entry[1]
            IN  entry.recent_formations = RecentAt(entry, t)

\* the candidate was added by the address search
FromAddress(similar) == "found_by" \in DOMAIN similar

\* C16: similar_companies never holds the scanned company, whichever
\* search returned it, and no candidate added by the address search has
\* the company number of a candidate before it (of the name search or of
\* an earlier address hit).
C16_NoTargetNoDuplicate ==
    LET similar_companies == report.similar_companies
    IN  /\ \A i \in 1..Len(similar_companies) :
               /\ Chars[similar_companies[i].company_number] # company_number
               /\ report.company # <<>>
                     => similar_companies[i].company_number
                            # report.company.company_number
        /\ \A i, j \in 1..Len(similar_companies) :
               (i < j /\ FromAddress(similar_companies[j]))
                   => similar_companies[i].company_number
                          # similar_companies[j].company_number

\* both searches returned the scanned company, and the address search
\* returned a hit of the name search and one new company twice: the two
\* other hits of the name search and the new company, once, are kept
C16_Witness ==
    /\ pc = "returned"
    /\ ~FailedSearch("name") /\ ~FailedSearch("address")
    /\ [i \in 1..Len(report.similar_companies) |->
           report.similar_companies[i].company_number]
         = <<NameHit.company_number, OtherNameHit.company_number,
             AddressHit.company_number>>
    /\ ~FromAddress(report.similar_companies[1])
    /\ ~FromAddress(report.similar_companies[2])
    /\ FromAddress(report.similar_companies[3])

\* C17, as stated: every candidate of similar_companies carries a
\* found_by tag, "name" or "address".
C17_EveryCandidateTagged ==
    \A i \in 1..Len(report.similar_companies) :
        /\ "found_by" \in DOMAIN report.similar_companies[i]
        /\ report.similar_companies[i].found_by \in {"name", "address"}

\* C17, amended: the candidates the name search adds carry no found_by
\* key, and the report written from the bundle reads them as found by
\* "name"; the address search leaves the candidates it finds in place and
\* adds its own with found_by = "address".
C17_AddressTaggedNameDefault ==
    [][LET before == report.similar_companies
           after == report'.similar_companies
       IN  /\ (pc = "officers" /\ pc' = "address_search")
                 => /\ SubSeq(after, 1, Len(before)) = before
                    /\ \A i \in (Len(before) + 1)..Len(after) :
                           /\ "found_by" \notin DOMAIN after[i]
                           /\ FoundBy(after[i]) = "name"
           /\ (pc = "address_search" /\ pc' = "score")
                 => /\ SubSeq(after, 1, Len(before)) = before
                    /\ \A i \in (Len(before) + 1)..Len(after) :
                           /\ "found_by" \in DOMAIN after[i]
                           /\ after[i].found_by = "address"
                           /\ FoundBy(after[i]) = "address"]_vars

\* a bundle with a candidate of each search
C17_Witness ==
    /\ pc = "returned"
    /\ Len(report.similar_companies) = 2
    /\ "found_by" \notin DOMAIN report.similar_companies[1]
    /\ FoundBy(report.similar_companies[1]) = "name"
    /\ report.similar_companies[1].company_number = OtherNameHit.company_number
    /\ report.similar_companies[2] = Tagged(AddressHit)
    /\ FoundBy(report.similar_companies[2]) = "address"

\* the officer summaries of the scan: those appended to the bundle and the
\* one being worked on
Entries == report.officers \o officer_entry

\* the linked companies recorded so far, officer after officer
RECURSIVE AllLinked(_)
AllLinked(entries) ==
    IF entries = <<>> THEN <<>>
    ELSE Head(entries).linked_companies \o AllLinked(Tail(entries))

\* the five suspicious statuses
Suspicious ==
    {"dissolved", "liquidation", "insolvency-proceedings", "receivership",
     "administration"}

\* C24: for each officer, dissolved_links is the number of the officer's
\* linked companies with status dissolved, liquidation_links the number
\* with status liquidation or insolvency-proceedings, linked_companies
\* holds the hits of the officer's search in search order (those read so
\* far, the rest still to be read), one flag is recorded for each linked
\* company with a suspicious status, in order, and an officer whose search
\* failed has no linked company and all three counters 0.
C24_CountersMatchLinks ==
    /\ \A k \in 1..Len(Entries) :
           LET entry == Entries[k]
           IN  /\ entry.dissolved_links
                    = Count(entry.linked_companies, LAMBDA c : c.status = "dissolved")
               /\ entry.liquidation_links
                    = Count(entry.linked_companies,
                            LAMBDA c : c.status \in {"liquidation",
                                                     "insolvency-proceedings"})
               /\ \E search \in OfficerSearchResults :
                      LET items == Get(search, "items", <<>>)
                          read == IF k <= Len(report.officers) THEN Len(items)
                                  ELSE Len(items) - Len(linked)
                      IN  /\ ("error" \in DOMAIN search) = OfficerSearches[k].failed
                          /\ read = Len(entry.linked_companies)
                          /\ \A i \in 1..read :
                                 /\ entry.linked_companies[i].company_number
                                      = items[i].company_number
                                 /\ entry.linked_companies[i].title = items[i].title
                                 /\ entry.linked_companies[i].status
                                      = items[i].company_status
                                 /\ entry.linked_companies[i].date_of_creation
                                      = items[i].date_of_creation
                          /\ k > Len(report.officers)
                                 => linked = SubSeq(items, read + 1, Len(items))
               /\ OfficerSearches[k].failed
                      => /\ entry.linked_companies = <<>>
                         /\ entry.dissolved_links = 0
                         /\ entry.liquidation_links = 0
                         /\ entry.recent_formations = 0
    /\ LET flagged == SelectSeq(AllLinked(Entries), LAMBDA c : c.status \in Suspicious)
       IN  /\ Len(report.flags) = Len(flagged)
           /\ \A i \in 1..Len(flagged) :
                  /\ report.flags[i].company_title = flagged[i].title
                  /\ report.flags[i].company_status = flagged[i].status

\* a finished scan of two officers: the search of the first returned a
\* company in liquidation and one in administration, the search of the
\* second a dissolved and an active company
C24_Witness ==
    /\ pc = "returned"
    /\ Len(report.officers) = 2
    /\ report.officers[1].liquidation_links = 1
    /\ report.officers[1].dissolved_links = 0
    /\ Len(report.officers[1].linked_companies) = 2
    /\ report.officers[2].dissolved_links = 1
    /\ Len(report.officers[2].linked_companies) = 2
    /\ Len(report.flags) = 3

\* how many calls of the scan went to the given path of the registry
Times(api) == Count(calls, LAMBDA c : c.api = api)

\* how many searches of the given kind the scan made
Searches(by) == Count(calls, LAMBDA c : c.api = "search" /\ c.by = by)

\* C25: within one scan the profile, the officer list, the filing history,
\* the PSC, the charges and the insolvency record are each fetched at most
\* once; there is one search for each officer taken up, at most one search
\* by the company name and at most one by the address, the latter only
\* with the non-empty address string that was built; so no call, failed or
\* not, is issued again.
C25_NoRetry ==
    /\ \A api \in {"company", "officers", "filing-history",
                   "persons-with-significant-control", "charges", "insolvency"} :
           Times(api) <= 1
    /\ Searches("officer") = Len(Entries)
    /\ Searches("name") <= 1
    /\ Searches("address") <= 1
    /\ \A i \in 1..Len(calls) :
           (calls[i].api = "search" /\ calls[i].by = "address")
               => /\ address_built # <<>>
                  /\ calls[i].q = address_built
    /\ \A i \in 1..Len(calls) :
           calls[i].api \in {"company", "officers", "filing-history",
                             "persons-with-significant-control", "charges",
                             "insolvency"}
           \/ (calls[i].api = "search" /\ calls[i].by \in {"officer", "name", "address"})
    /\ \A i, j \in 1..Len(calls) :
           (i < j /\ calls[i].failed /\ calls[i].by # "officer") => calls[j] # calls[i]

\* a finished scan in which all six fetches but the profile's and all
\* searches failed: eight calls for a company without officers
C25_Witness ==
    /\ pc = "returned"
    /\ response[1].status = 200
    /\ Len(calls) = 8
    /\ \A i \in 2..8 : calls[i].failed
    /\ Times("filing-history") = 1
    /\ Searches("name") = 1 /\ Searches("address") = 1

(***************************************************************************)
(* The verdict                                                             *)
(***************************************************************************)
\* no trigger of the confidence table other than the i-th contributes
OnlyTrigger(r, i) ==
    \A j \in 1..6 : (ConfidenceTable(r)[j].delta > 0) = (j = i)

\* C27: in every result is_phoenix = "YES" implies phoenix_confidence >=
\* 60; a single phoenix-pattern director alone gives confidence 25 and
\* "NO", and exactly two name-recycling matches alone give confidence 20
\* and "NO".
C27_VerdictNeedsSixty ==
    Scored =>
        /\ report.is_phoenix = "YES" => report.phoenix_confidence >= 60
        /\ (PhoenixDirectorCount(report) = 1 /\ OnlyTrigger(report, 1))
               => report.phoenix_confidence = 25 /\ report.is_phoenix = "NO"
        /\ (NameMatchCount(report) = 2 /\ OnlyTrigger(report, 3))
               => report.phoenix_confidence = 20 /\ report.is_phoenix = "NO"

\* a scored bundle whose only trigger is its single phoenix-pattern
\* director
C27_Witness ==
    /\ Scored
    /\ PhoenixDirectorCount(report) = 1
    /\ OnlyTrigger(report, 1)
    /\ report.phoenix_confidence = 25
    /\ report.is_phoenix = "NO"

\* the six fields calculate_risk writes
SixFields ==
    {"is_phoenix", "phoenix_confidence", "phoenix_reasons", "risk_score",
     "risk_level", "phoenix_indicators"}

\* C26: the scoring step of a scan changes the six assessment fields of
\* the bundle only: the profile, the officers with their counters, the
\* similar companies, the charges, the insolvency record, the filing
\* history, the PSC and the flags are after the step what they were
\* before, and no other key is added.
C26_OnlySixFieldsChange ==
    [][(pc = "score" /\ pc' = "returned" /\ response'[1].status = 200)
          => /\ DOMAIN report' = DOMAIN report \cup SixFields
             /\ \A k \in {"company", "officers", "similar_companies", "charges",
                          "insolvency", "filing_history", "psc", "flags"} :
                    /\ k \in DOMAIN report
                    /\ report'[k] = report[k]
             /\ \A k \in DOMAIN report \ SixFields : report'[k] = report[k]]_vars

\* a scored bundle none of whose sections is empty
C26_Witness ==
    /\ pc = "returned"
    /\ response[1].status = 200
    /\ SixFields \subseteq DOMAIN report
    /\ report.officers # <<>> /\ report.officers[1].linked_companies # <<>>
    /\ report.similar_companies # <<>>
    /\ report.charges # <<>> /\ report.insolvency # {}
    /\ report.filing_history # <<>> /\ report.psc # <<>> /\ report.flags # <<>>
    /\ report.phoenix_indicators # <<>>

(***************************************************************************)
(* calculate_risk: order, clock and growing evidence                       *)
(***************************************************************************)
\* s and t hold the same elements the same number of times
SameElements(s, t) ==
    /\ Len(s) = Len(t)
    /\ \A i \in 1..Len(s) :
           Count(s, LAMBDA x : x = s[i]) = Count(t, LAMBDA x : x = s[i])

\* bundle r2 is bundle r1 with its officers or its similar companies in
\* another order
Reordered(r1, r2) ==
    /\ r1 # r2
    /\ SameElements(r1.officers, r2.officers)
    /\ SameElements(r1.similar_companies, r2.similar_companies)
    /\ \A k \in DOMAIN r1 \ {"officers", "similar_companies"} : r1[k] = r2[k]

\* the four fields of the assessment that do not spell out the evidence
Outcome(r) ==
    LET scored == calculate_risk(r)
    IN  <<scored.risk_score, scored.risk_level, scored.is_phoenix,
          scored.phoenix_confidence>>

\* C23: a bundle whose officers or similar companies are permuted is
\* scored with the same risk_score, risk_level, is_phoenix and
\* phoenix_confidence, and a bundle that is scored again at a later time
\* is given the assessment it has.
C23_OrderAndClockFree ==
    [][/\ (pc = "build" /\ pc' = "build" /\ Reordered(report, report'))
              => Outcome(report') = Outcome(report)
       /\ (pc = "scored" /\ pc' = "scored" /\ now' = now)
              => report' = report]_vars

\* a bundle whose second officer, a phoenix director, was moved behind the
\* officer without links, and whose similar company without a name match
\* comes first: scored NO at confidence 25, also after the clock advanced
C23_Witness ==
    /\ pc = "scored"
    /\ now = MaxLater
    /\ Len(report.officers) = 2
    /\ report.officers[1].name = "B" /\ report.officers[2].name = "A"
    /\ report.officers[1].dissolved_links = 0
    /\ report.officers[2].dissolved_links >= 1
    /\ report.officers[2].recent_formations >= 1
    /\ Len(report.similar_companies) = 2
    /\ report.similar_companies[1] = AddressHit
    /\ report.similar_companies[2] = NameHit
    /\ report.is_phoenix = "NO"
    /\ report.phoenix_confidence = 25

\* bundle r2 is bundle r1 with one more officer, one more similar company
\* or one counter of one officer raised
Grown(r1, r2) ==
    /\ \A k \in DOMAIN r1 \ {"officers", "similar_companies"} : r1[k] = r2[k]
    /\ \/ /\ r2.similar_companies = r1.similar_companies
          /\ Len(r2.officers) = Len(r1.officers) + 1
          /\ SubSeq(r2.officers, 1, Len(r1.officers)) = r1.officers
       \/ /\ r2.officers = r1.officers
          /\ Len(r2.similar_companies) = Len(r1.similar_companies) + 1
          /\ SubSeq(r2.similar_companies, 1, Len(r1.similar_companies))
               = r1.similar_companies
       \/ /\ r2.similar_companies = r1.similar_companies
          /\ Len(r2.officers) = Len(r1.officers)
          /\ \E i \in 1..Len(r1.officers), counter \in Counters :
                 r2.officers = [r1.officers EXCEPT ![i][counter] = @ + 1]

\* C28: when a bundle gains an officer or a similar company, or one
\* counter of one officer is raised, everything else as it was, the
\* risk_score and the phoenix_confidence it is scored with do not fall and
\* is_phoenix does not turn from YES to NO.
C28_Monotone ==
    [][(pc = "build" /\ pc' = "build" /\ Grown(report, report'))
          => LET before == calculate_risk(report)
                 after == calculate_risk(report')
             IN  /\ after.risk_score >= before.risk_score
                 /\ after.phoenix_confidence >= before.phoenix_confidence
                 /\ before.is_phoenix = "YES" => after.is_phoenix = "YES"]_vars

\* a bundle scored YES at the limit of the evidence: it was scored YES
\* with less
C28_Witness ==
    /\ pc = "scored"
    /\ Evidence(report) = MaxEvidence
    /\ report.is_phoenix = "YES"
    /\ report.risk_score = 100
    /\ \E i \in 1..Len(report.officers) :
           /\ report.officers[i].dissolved_links >= 1
           /\ calculate_risk([report EXCEPT !.officers[i].dissolved_links = @ - 1]).is_phoenix
                = "YES"

(***************************************************************************)
(* Properties of the server: the cache and the export                      *)
(***************************************************************************)
\* a step of download_report, a step of scan
ExportStep == export_pc' # export_pc
ScanStep == export_vars' = export_vars

NoReport ==
    <<[status |-> 404, body |-> "No report available. Please run a scan first."]>>
Mismatch == <<[status |-> 404, body |-> "Report mismatch. Please run a new scan."]>>

\* the profile of the bundle does not carry the company number
Differs(bundle, number) ==
    \/ "company_number" \notin DOMAIN bundle.company
    \/ bundle.company.company_number # number

\* C21: an export that finds no cached report, or whose identifier differs
\* from the company number of the report it read from the cache, is
\* answered 404 without any report content, and no step of an export
\* changes the cache.
C21_NoPriorReport ==
    [][ExportStep =>
          /\ last_report' = last_report
          /\ (export_pc = "check" /\ last_report = <<>>)
                 => export_pc' = "done" /\ export_response' = NoReport
          /\ (export_pc = "render" /\ Differs(export_report[1], export_number))
                 => /\ export_pc' = "done"
                    /\ export_response' = Mismatch
                    /\ "csv" \notin DOMAIN export_response'[1]]_vars

\* an export for the other company was refused while the report of the
\* target stayed in the cache
C21_Witness ==
    /\ export_pc = "done"
    /\ export_number = OtherNumber
    /\ export_response = Mismatch
    /\ last_report # <<>>
    /\ export_report = last_report
    /\ last_report[1].company.company_number = TargetNumber

\* C22: when the latest scan, of identifier X, succeeded and an export for
\* the same identifier X has read the cache that scan left, the export
\* returns the report of that scan.
C22_ExportAfterScan ==
    (/\ response # <<>> /\ response[1].status = 200
     /\ export_pc = "done"
     /\ export_number = request_arg
     /\ export_report = last_report)
        => /\ export_response[1].status = 200
           /\ export_response[1].csv = generate_csv_report(report, now)

\* C29: a scan that succeeds leaves its scored bundle, with all six
\* assessment fields, in the cache; a scan that fails (empty identifier,
\* profile error) leaves the cache as it was; so the cache holds the
\* bundle of the latest successful scan.
C29_CacheWrittenBySuccess ==
    [][(ScanStep /\ response' # <<>>) =>
          IF response'[1].status = 200
          THEN /\ last_report' = <<report'>>
               /\ SixFields \subseteq DOMAIN report'
               /\ Chars[report'.company.company_number] = company_number'
          ELSE last_report' = last_report]_vars

\* after a scan of the target succeeded, a scan of an unknown or empty
\* identifier failed: the cache still holds the target's bundle
C29_Witness ==
    /\ response # <<>> /\ response[1].status = 400
    /\ last_report # <<>>
    /\ last_report[1].company.company_number = TargetNumber
    /\ SixFields \subseteq DOMAIN last_report[1]
    /\ report = EmptyReport

\* C30: under every interleaving of scans and the steps of an export, an
\* export for identifier X returns 404 or the report of a company whose
\* number is X, written from one bundle.
C30_ExportMatches ==
    (export_pc = "done") =>
        \/ export_response \in {NoReport, Mismatch}
        \/ /\ export_response[1].status = 200
           /\ export_response[1].csv.company_number = export_number
           /\ export_response[1].download_name = export_number
           /\ export_response[1].csv = generate_csv_report(export_report[1], now)
           /\ export_report[1].company.company_number = export_number

\* an export for the target returned the target's report although a scan
\* of the other company had overwritten the cache while the export was
\* under way
C30_Witness ==
    /\ export_pc = "done"
    /\ export_number = TargetNumber
    /\ export_response[1].status = 200
    /\ export_response[1].csv.company_number = TargetNumber
    /\ last_report # export_report
    /\ last_report[1].company.company_number = OtherNumber

=============================================================================
